---- MODULE Spec2Model ----
(***************************************************************************)
(* Scraping-to-storage pipeline of rent_house:                             *)
(*   - field extraction of one listing block, browser strategy             *)
(*     (listings/crawler.py) and lightweight strategy                      *)
(*     (listings/crawler_requests.py)                       -> SpecExtract *)
(*   - the paginated crawl get_rent_data (listings/crawler.py)             *)
(*                                                          -> SpecCrawl   *)
(*   - the per-record upsert loop of rent_list / get_all_rent_list         *)
(*     (listings/views.py) over the Listing table (listings/models.py)     *)
(*                                                          -> SpecUpsert  *)
(*   - the search URL built by get_rent_data               -> SpecUrl     *)
(*   - the views rent_list and get_all_rent_list            -> SpecViews   *)
(*   - two requests upserting at the same time          -> SpecConcurrent  *)
(* Strings that are parsed (URLs, serials) are sequences of characters;    *)
(* texts that are only copied are TLA+ strings.                            *)
(***************************************************************************)
EXTENDS Integers, Sequences, FiniteSets, TLC

VARIABLES
    \* ---- field extraction of one block
    item,            \* the listing block under extraction
    strategy,        \* "browser" (crawler.py) or "requests" (crawler_requests.py)
    emitted,         \* the results list of the strategy after the block
    xpc,             \* "ready" before the block is processed, "done" after
    \* ---- get_rent_data (crawler.py)
    pc,              \* position in get_rent_data
    max_pages,       \* the max_pages argument
    driver,          \* "unbound", "live" or "quit"
    current_page,    \* the loop variable current_page
    listings,        \* the blocks found by the last wait.until
    results,         \* the results list
    outcome,         \* "running", "returned" or "raised"
    retval,          \* the value returned to the caller
    trace,           \* history: the browser calls made, in order
    seen,            \* history: per processed page, its blocks and records
    \* ---- upsert loop (views.py) over the Listing table
    store,           \* the Listing table: a sequence of rows, in insertion order
    clock,           \* the database clock read by auto_now / auto_now_add
    upc,             \* "idle", "loop" or "done"
    crawler_data,    \* the batch of records the loop iterates over
    idx,             \* number of records of the batch already attempted
    new_listings_count,  \* views.py new_listings_count
    current_listings,    \* views.py current_listings (serials of the rows)
    errlog,          \* the lines printed by the loop's except branch
    runNo,           \* history: number of runs started
    repeat,          \* history: this run repeats the previous run's batch
    snap,            \* history: the store when this run started
    prevFailed,      \* history: number of failed upserts of the previous run
    outcomes,        \* history: per attempted record "created", "updated" or "failed"
    lastOp,          \* history: the last upsert attempted and its outcome
    \* ---- the search URL of get_rent_data (crawler.py)
    county,          \* the county argument: None or a string
    district,        \* the district argument: None or a string
    house_type,      \* the house_type argument: None or a string
    rent_range,      \* the rent_range argument: None or a string
    url,             \* the local variable url
    bpc,             \* "args" before the URL is built, "built" after
    \* ---- the views rent_list and get_all_rent_list (views.py)
    view,            \* the view that serves the request
    vpc,             \* "request", "crawl", "upsert" or "responded"
    city_idx,        \* get_all_rent_list: position of county in chinese_cities
    crawled,         \* get_all_rent_list: len(crawler_data) of the county
    item_idx,        \* get_all_rent_list: records of the county already attempted
    total_new_listings,  \* views.py total_new_listings
    total_errors,    \* views.py total_errors
    response,        \* what the view sends back
    engine_failures, \* history: get_rent_data calls whose browser did not start
    visited,         \* history: the counties get_rent_data was called for, in order
    upsert_failures, \* history: update_or_create calls of the view that raised
    \* ---- two requests running their upsert loops at the same time
    crawled_by,      \* per request: len(crawler_data)
    attempted,       \* per request: records already attempted
    new_by,          \* per request: new_listings_count
    created_log,     \* history: the upserts that created a row
    \* ---- preprocess_listing_data (views.py), one listing
    listing_addr,    \* listing.addr
    city_zh,         \* the local variable city_zh
    ppc,             \* "listing" before the listing is labelled, "labelled" after
    \* ---- geocode_missing_listings (views.py)
    geo_table,           \* the Listing table: addr and location of each row
    password_ok,         \* user.check_password(password)
    env_key,             \* os.environ.get('Maps_API_KEY')
    settings_key,        \* settings.MAPS_API_KEY
    listings_to_geocode, \* the rows the iterator has still to yield
    geocoded_count,
    failed_count,
    geo_response,        \* the JsonResponse of the view
    gpc,                 \* "start", "loop", "done"
    geo_start,           \* history: the table when the request arrived
    geo_log,             \* history: per row handled, the request made and its reply
    \* ---- login_view, change_password, deactivate_account (views.py)
    rent_user,       \* the RentUser row: is_active, is_staff, is_superuser, password
    logged_in,       \* the session holds this user
    last_request,    \* history: the last request, its POST fields and its outcome
    user_before,     \* history: the row before the last request
    logged_before    \* history: logged_in before the last request

xvars == <<item, strategy, emitted, xpc>>
cvars == <<pc, max_pages, driver, current_page, listings, results, outcome,
           retval, trace, seen>>
uvars == <<store, clock, upc, crawler_data, idx, new_listings_count,
           current_listings, errlog, runNo, repeat, snap, prevFailed, outcomes,
           lastOp>>
bvars == <<county, district, house_type, rent_range, url, bpc>>
vvars == <<view, vpc, city_idx, crawled, item_idx, total_new_listings,
           total_errors, response, engine_failures, visited, upsert_failures>>
kvars == <<crawled_by, attempted, new_by, created_log>>
pvars == <<listing_addr, city_zh, ppc>>
avars == <<rent_user, logged_in, last_request, user_before, logged_before>>
gvars == <<geo_table, password_ok, env_key, settings_key, listings_to_geocode,
           geocoded_count, failed_count, geo_response, gpc, geo_start, geo_log>>
vars == <<xvars, cvars, uvars, bvars, vvars, kvars, pvars, gvars, avars>>

(***************************************************************************)
(* Bounds of the model.                                                    *)
(***************************************************************************)
MaxUrlLen == 3       \* longest detail URL, in characters
MaxInfos == 6        \* longest info list of a block
MaxPagesBound == 3   \* largest max_pages argument
NSerials == 2        \* number of distinct serials in upserted records
NUrls == 2           \* number of distinct urls in upserted records
MaxBatch == 2        \* longest batch of records of one upsert run
MaxSeedRows == 1     \* rows left in the store by earlier runs
MaxNameLen == 3      \* longest county or district argument
MaxCities == 2       \* counties of chinese_cities that get_all_rent_list visits
MaxCrawled == 1      \* most records get_rent_data returns for one of them
MaxAddrLen == 6      \* longest listing address, in characters
MaxListings == 3     \* most rows of the Listing table when the geocoding request arrives

(***************************************************************************)
(* Strings as sequences of characters.                                     *)
(***************************************************************************)
Chars == {"/", "1", "2"}

RECURSIVE SeqsUpTo(_, _)
SeqsUpTo(S, n) ==
    IF n = 0 THEN {<<>>}
    ELSE LET shorter == SeqsUpTo(S, n - 1)
         IN  shorter \cup {Append(s, c) : s \in shorter, c \in S}

\* str.rstrip('/'): every trailing '/' is removed
\* mutant: only one trailing slash is removed
RStripOne(s) ==
    IF s # <<>> /\ s[Len(s)] = "/" THEN SubSeq(s, 1, Len(s) - 1) ELSE s

RECURSIVE RStrip(_)
RStrip(s) ==
    IF s # <<>> /\ s[Len(s)] = "/" THEN RStrip(SubSeq(s, 1, Len(s) - 1)) ELSE s

\* str.split('/')[-1]: what follows the last '/', the whole string if none
RECURSIVE LastSegment(_)
LastSegment(s) ==
    IF s = <<>> \/ s[Len(s)] = "/" THEN <<>>
    ELSE Append(LastSegment(SubSeq(s, 1, Len(s) - 1)), s[Len(s)])

\* itemurl.rstrip('/').split('/')[-1]
SerialOf(itemurl) == LastSegment(RStrip(itemurl))

(***************************************************************************)
(* A listing block.  anchor: "none" (no <a>), "nohref" (an <a> without     *)
(* href) or "href" with the href in url.  An optional sub-element is <<>>  *)
(* when absent and <<text>> when present.  infos holds the texts of the    *)
(* elements of class infos.                                                *)
(***************************************************************************)
InfoTexts == [i \in 1..MaxInfos |-> "info" \o ToString(i)]

Opt(text) == {<<>>, <<text>>}

Blocks ==
    { [anchor |-> a, url |-> u, title |-> t, addr |-> ad, level |-> lv,
       pattern |-> pt, infos |-> SubSeq(InfoTexts, 1, n)] :
        a \in {"href"}, u \in SeqsUpTo(Chars, MaxUrlLen),
        t \in Opt("T"), ad \in Opt("A"), lv \in Opt("L"), pt \in Opt("P"),
        n \in 0..MaxInfos }
    \cup
    { [anchor |-> a, url |-> <<>>, title |-> t, addr |-> ad, level |-> lv,
       pattern |-> pt, infos |-> SubSeq(InfoTexts, 1, n)] :
        a \in {"none", "nohref"},
        t \in Opt("T"), ad \in Opt("A"), lv \in Opt("L"), pt \in Opt("P"),
        n \in 0..MaxInfos }

\* dict.get(key, default)
GetOr(d, key, default) == IF key \in DOMAIN d THEN d[key] ELSE default

\* crawler.py: the rent/parking/area/agent/update_time assignments by len(infos)
\* mutant: the 5-element layout is used for 4 elements too (parking and area shifted)
InfoFieldsOffByOne(infos) ==
    IF Len(infos) \in {4, 5}
    THEN [rent |-> infos[1], parking |-> infos[2], area |-> infos[3],
          agent |-> infos[4], update_time |-> infos[Len(infos)]]
    ELSE [rent |-> "", parking |-> "", area |-> "", agent |-> "", update_time |-> ""]

InfoFields(infos) ==
    IF Len(infos) = 4
    THEN [rent |-> infos[1], parking |-> "", area |-> infos[2],
          agent |-> infos[3], update_time |-> infos[4]]
    ELSE IF Len(infos) = 5
    THEN [rent |-> infos[1], parking |-> infos[2], area |-> infos[3],
          agent |-> infos[4], update_time |-> infos[5]]
    ELSE [rent |-> "", parking |-> "", area |-> "", agent |-> "", update_time |-> ""]

\* crawler.py: the try body of the per-item loop.  find_element raises when the
\* element is absent, get_attribute('href') gives None without href and
\* None.rstrip raises; the except branch drops the block (continue).
\* The result is what the block appends to results: <<record>> or <<>>.
ExtractBrowser(b) ==
    IF \/ b.anchor # "href"
       \/ b.title = <<>> \/ b.addr = <<>> \/ b.pattern = <<>> \/ b.level = <<>>
    THEN <<>>
    ELSE LET f == InfoFields(b.infos)
         IN  << [serial |-> SerialOf(b.url),
                 title |-> b.title[1],
                 addr |-> b.addr[1],
                 level |-> b.pattern[1],
                 pattern |-> b.level[1],
                 rent |-> f.rent,
                 parking |-> f.parking,
                 area |-> f.area,
                 agent |-> f.agent,
                 update_time |-> f.update_time,
                 url |-> b.url] >>

\* crawler_requests.py: the rent/parking/area/landlord/update_time assignments
InfoFieldsRequests(infos) ==
    IF Len(infos) = 4
    THEN [rent |-> infos[1], parking |-> "", area |-> infos[2],
          landlord |-> infos[3], update_time |-> infos[4]]
    ELSE IF Len(infos) = 5
    THEN [rent |-> infos[1], parking |-> infos[2], area |-> infos[3],
          landlord |-> infos[4], update_time |-> infos[5]]
    ELSE [rent |-> "", parking |-> "", area |-> "", landlord |-> "",
          update_time |-> ""]

\* crawler_requests.py: the try body of the per-item loop.  item.find('a',
\* href=True) is None for a block without an <a href>; every absent
\* sub-element degrades to ''.  The info value is stored under 'landlord'.
ExtractRequests(b) ==
    LET itemurl == IF b.anchor = "href" THEN b.url ELSE <<>>
        serial == IF itemurl # <<>> THEN SerialOf(itemurl) ELSE <<>>
        text(e) == IF e # <<>> THEN e[1] ELSE ""
        f == InfoFieldsRequests(b.infos)
    IN  << [serial |-> serial,
            title |-> text(b.title),
            addr |-> text(b.addr),
            level |-> text(b.level),
            pattern |-> text(b.pattern),
            rent |-> f.rent,
            parking |-> f.parking,
            area |-> f.area,
            landlord |-> f.landlord,
            update_time |-> f.update_time,
            url |-> itemurl] >>

(***************************************************************************)
(* Field extraction of one block by either strategy.                       *)
(***************************************************************************)
XIdle ==
    /\ item = [anchor |-> "none", url |-> <<>>, title |-> <<>>, addr |-> <<>>,
               level |-> <<>>, pattern |-> <<>>, infos |-> <<>>]
    /\ strategy = "browser"
    /\ emitted = <<>>
    /\ xpc = "idle"

XInit ==
    /\ item \in Blocks
    /\ strategy \in {"browser", "requests"}
    /\ emitted = <<>>
    /\ xpc = "ready"

\* crawler.py: one iteration of "for item in listings"
BrowserItem ==
    /\ xpc = "ready"
    /\ strategy = "browser"
    /\ emitted' = emitted \o ExtractBrowser(item)
    /\ xpc' = "done"
    /\ UNCHANGED <<item, strategy>>

\* crawler_requests.py: one iteration of "for item in listings"
RequestsItem ==
    /\ xpc = "ready"
    /\ strategy = "requests"
    /\ emitted' = emitted \o ExtractRequests(item)
    /\ xpc' = "done"
    /\ UNCHANGED <<item, strategy>>

(***************************************************************************)
(* get_rent_data of crawler.py.                                            *)
(***************************************************************************)
FullPage == 10

\* The site: what wait.until finds on a page.  A page has n blocks; the blocks
\* named by defect are of the defective kind, the others are complete blocks
\* with a 4-element info list.
PageSizes == {1, FullPage - 1, FullPage, FullPage + 1}

PageShapes ==
    [n : PageSizes, defect : {"none", "first", "all"}, kind : {"noanchor"}]
    \cup [n : PageSizes, defect : {"last"}, kind : {"notitle"}]

Defective(shape, i) ==
    \/ shape.defect = "all"
    \/ shape.defect = "first" /\ i = 1
    \/ shape.defect = "last" /\ i = shape.n

PageBlock(p, i, shape) ==
    [anchor |-> IF Defective(shape, i) /\ shape.kind = "noanchor"
                THEN "none" ELSE "href",
     url |-> IF Defective(shape, i) /\ shape.kind = "noanchor"
             THEN <<>> ELSE <<"r", "/", ToString(100 * p + i), "/">>,
     title |-> IF Defective(shape, i) /\ shape.kind = "notitle"
               THEN <<>> ELSE <<"T">>,
     addr |-> <<"A">>, level |-> <<"L">>, pattern |-> <<"P">>,
     infos |-> SubSeq(InfoTexts, 1, 4)]

PageListings(p, shape) == [i \in 1..shape.n |-> PageBlock(p, i, shape)]

\* crawler.py: the loop "for item in listings" appending to results
\* mutant: each record is put in front of the list instead of appended
RECURSIVE ExtractAllReversed(_)
ExtractAllReversed(ls) ==
    IF ls = <<>> THEN <<>>
    ELSE ExtractAllReversed(Tail(ls)) \o ExtractBrowser(Head(ls))

RECURSIVE ExtractAll(_)
ExtractAll(ls) ==
    IF ls = <<>> THEN <<>>
    ELSE ExtractBrowser(Head(ls)) \o ExtractAll(Tail(ls))

\* crawler.py: "if len(listings) >= 10"
\* mutant: any non-empty page counts as a full page
HasFullPageAny(ls) == Len(ls) >= 1

\* mutant: the records extracted from the page are counted, not its blocks
HasFullPageOfRecords(ls) == Len(ExtractAll(ls)) >= FullPage

HasFullPage(ls) == Len(ls) >= FullPage

\* crawler.py: the page-level except branch breaks, and the function returns results
\* mutant: a page-level failure discards what was collected
ReturnedEmpty(res) == <<>>

ReturnedResults(res) == res

\* crawler.py: driver.quit() stands in a finally clause, so it runs whether the
\* function leaves by a return of the try body or by the except branch
\* mutant: driver.quit() at the end of the try body only
QuitOnReturnOnly(how) == how = "return"

FinallyRuns(how) == how \in {"return", "except"}

\* crawler.py: "while current_page <= max_pages"
\* mutant: the loop admits one page more than max_pages
WithinCapPlusOne(p, m) == p <= m + 1

WithinCap(p, m) == p <= m

\* crawler.py: "current_page = current_page + 1" after the click
\* mutant: the click is made but current_page is not advanced
StayOnPage(p) == p

AdvancePage(p) == p + 1

Event(op, page, res, n) == [op |-> op, page |-> page, res |-> res, n |-> n]

CIdle ==
    /\ pc = "idle"
    /\ max_pages = 0
    /\ driver = "unbound"
    /\ current_page = 0
    /\ listings = <<>>
    /\ results = <<>>
    /\ outcome = "idle"
    /\ retval = <<>>
    /\ trace = <<>>
    /\ seen = <<>>

CInit ==
    /\ pc = "launch"
    /\ max_pages \in -1..MaxPagesBound
    /\ driver = "unbound"
    /\ current_page = 0
    /\ listings = <<>>
    /\ results = <<>>
    /\ outcome = "running"
    /\ retval = <<>>
    /\ trace = <<>>
    /\ seen = <<>>

\* uc.ChromeOptions() and uc.Chrome(options=options)
Launch ==
    /\ pc = "launch"
    /\ driver' = "live"
    /\ trace' = Append(trace, Event("launch", 0, "ok", 0))
    /\ pc' = "get"
    /\ UNCHANGED <<max_pages, current_page, listings, results, outcome, retval, seen>>

\* uc.Chrome raises: the outer except prints and returns [], driver is unbound
LaunchFails ==
    /\ pc = "launch"
    /\ trace' = Append(trace, Event("launch", 0, "error", 0))
    /\ retval' = <<>>
    /\ pc' = "finally_except"
    /\ UNCHANGED <<max_pages, driver, current_page, listings, results, outcome, seen>>

\* driver.get(url); results = []; current_page = 1; wait = WebDriverWait(driver, 10)
Get ==
    /\ pc = "get"
    /\ trace' = Append(trace, Event("get", 1, "ok", 0))
    /\ results' = <<>>
    /\ current_page' = 1
    /\ pc' = "loop"
    /\ UNCHANGED <<max_pages, driver, listings, outcome, retval, seen>>

\* driver.get raises: the outer except prints and returns []
GetFails ==
    /\ pc = "get"
    /\ trace' = Append(trace, Event("get", 1, "error", 0))
    /\ retval' = <<>>
    /\ pc' = "finally_except"
    /\ UNCHANGED <<max_pages, driver, current_page, listings, results, outcome, seen>>

\* while current_page <= max_pages
LoopTest ==
    /\ pc = "loop"
    /\ pc' = IF WithinCap(current_page, max_pages) THEN "wait" ELSE "return"
    /\ UNCHANGED <<max_pages, driver, current_page, listings, results, outcome,
                   retval, trace, seen>>

\* wait.until(presence_of_all_elements_located(...)) finds the blocks of the
\* page (never an empty list: until waits for a truthy value), and the for
\* loop extracts each of them
WaitAndExtract ==
    /\ pc = "wait"
    /\ \E shape \in PageShapes :
        LET ls == PageListings(current_page, shape)
            recs == ExtractAll(ls)
        IN  /\ listings' = ls
            /\ results' = results \o recs
            /\ seen' = Append(seen, [page |-> current_page, n |-> Len(ls),
                                     blocks |-> ls, recs |-> recs])
            /\ trace' = Append(trace, Event("wait", current_page, "ok", Len(ls)))
    /\ pc' = "paginate"
    /\ UNCHANGED <<max_pages, driver, current_page, outcome, retval>>

\* wait.until raises TimeoutException after 10 s: the page-level except breaks
WaitTimesOut ==
    /\ pc = "wait"
    /\ trace' = Append(trace, Event("wait", current_page, "timeout", 0))
    /\ results' = ReturnedResults(results)
    /\ pc' = "return"
    /\ UNCHANGED <<max_pages, driver, current_page, listings, outcome, retval, seen>>

\* the page is short, or it is the last page allowed: break
StopPaging ==
    /\ pc = "paginate"
    /\ ~(HasFullPage(listings) /\ current_page < max_pages)
    /\ pc' = "return"
    /\ UNCHANGED <<max_pages, driver, current_page, listings, results, outcome,
                   retval, trace, seen>>

\* find the control labelled current_page+1, scroll to it and click it
NextPage ==
    /\ pc = "paginate"
    /\ HasFullPage(listings)
    /\ current_page < max_pages
    /\ trace' = Append(trace, Event("next", current_page + 1, "ok", 0))
    /\ current_page' = AdvancePage(current_page)
    /\ pc' = "loop"
    /\ UNCHANGED <<max_pages, driver, listings, results, outcome, retval, seen>>

\* find_element or execute_script raises: the except prints and breaks
NextPageFails ==
    /\ pc = "paginate"
    /\ HasFullPage(listings)
    /\ current_page < max_pages
    /\ \E why \in {"notfound", "clickerror"} :
        trace' = Append(trace, Event("next", current_page + 1, why, 0))
    /\ results' = ReturnedResults(results)
    /\ pc' = "return"
    /\ UNCHANGED <<max_pages, driver, current_page, listings, outcome, retval, seen>>

\* return results
Return ==
    /\ pc = "return"
    /\ retval' = results
    /\ pc' = "finally_return"
    /\ UNCHANGED <<max_pages, driver, current_page, listings, results, outcome,
                   trace, seen>>

ExitHow == IF pc = "finally_return" THEN "return" ELSE "except"

\* finally: driver.quit(), then the pending return takes effect
Finally ==
    /\ pc \in {"finally_return", "finally_except"}
    /\ driver = "live"
    /\ IF FinallyRuns(ExitHow)
       THEN /\ driver' = "quit"
            /\ trace' = Append(trace, Event("quit", 0, "ok", 0))
       ELSE UNCHANGED <<driver, trace>>
    /\ outcome' = "returned"
    /\ pc' = "done"
    /\ UNCHANGED <<max_pages, current_page, listings, results, retval, seen>>

\* finally: driver was never bound, driver.quit() raises UnboundLocalError,
\* which replaces the pending return
FinallyUnbound ==
    /\ pc \in {"finally_return", "finally_except"}
    /\ driver = "unbound"
    /\ outcome' = "raised"
    /\ retval' = <<>>
    /\ pc' = "done"
    /\ UNCHANGED <<max_pages, driver, current_page, listings, results, trace, seen>>

(***************************************************************************)
(* The Listing table and the upsert loop of rent_list / get_all_rent_list. *)
(***************************************************************************)
Serials == 1..NSerials
Urls == 1..NUrls
Values == {"a", "b"}

\* a record of crawler_data, as crawler.py builds it
Rec(s, u, v) ==
    [serial |-> s, title |-> v, addr |-> v, level |-> v, pattern |-> v,
     rent |-> v, parking |-> v, area |-> v, agent |-> v, update_time |-> v,
     url |-> u]

Records == {Rec(s, u, v) : s \in Serials, u \in Urls, v \in Values}

Batches == SeqsUpTo(Records, MaxBatch)

\* models.py: a Listing row
Row(serial, d, created, updated) ==
    [serial |-> serial, title |-> d.title, addr |-> d.addr, level |-> d.level,
     pattern |-> d.pattern, rent |-> d.rent, parking |-> d.parking,
     area |-> d.area, agent |-> d.agent, update_time |-> d.update_time,
     url |-> d.url, location |-> "null", favorited_by |-> {},
     created_at |-> created, updated_at |-> updated]

\* mutant: the update replaces the row by a freshly built one
BuiltAnew(row, d, created, updated) == Row(row.serial, d, created, updated)

\* update_or_create on an existing row: setattr for every key of defaults,
\* then save(); the other columns keep what was read
Overwritten(row, d, created, updated) ==
    [row EXCEPT !.title = d.title, !.addr = d.addr, !.level = d.level,
                !.pattern = d.pattern, !.rent = d.rent, !.parking = d.parking,
                !.area = d.area, !.agent = d.agent,
                !.update_time = d.update_time, !.url = d.url,
                !.created_at = created, !.updated_at = updated]

\* a row left by an earlier run, since geocoded and added to a user's favorites
Settled(row) == [row EXCEPT !.location = "point", !.favorited_by = {"user"}]

\* mutant: the agent is read under the key 'landlord'
DefaultsLandlordKey(it) ==
    [title |-> it.title, addr |-> it.addr, level |-> it.level,
     pattern |-> it.pattern, rent |-> it.rent,
     parking |-> GetOr(it, "parking", ""), area |-> it.area,
     agent |-> GetOr(it, "landlord", ""),
     update_time |-> GetOr(it, "update_time", ""), url |-> it.url]

\* views.py: defaults_dict
Defaults(it) ==
    [title |-> it.title, addr |-> it.addr, level |-> it.level,
     pattern |-> it.pattern, rent |-> it.rent,
     parking |-> GetOr(it, "parking", ""), area |-> it.area,
     agent |-> GetOr(it, "agent", ""),
     update_time |-> GetOr(it, "update_time", ""), url |-> it.url]

\* models.py: serial = CharField(unique=True), url = URLField(unique=True)
UniqueSerials(st) ==
    \A i, j \in DOMAIN st : st[i].serial = st[j].serial => i = j

UniqueUrls(st) ==
    \A i, j \in DOMAIN st : st[i].url = st[j].url => i = j

\* the tables earlier runs can have left: at most MaxSeedRows rows, written at
\* time 0 from records of value "a"
SeedStores ==
    { st \in SeqsUpTo({Settled(Row(s, Defaults(Rec(s, u, "a")), 0, 0)) :
                          s \in Serials, u \in Urls},
                      MaxSeedRows) :
        UniqueSerials(st) /\ UniqueUrls(st) }

\* models.py: url unique=True; the database refuses a write that would give
\* row `self` (0 for a new row) the url of another row
\* mutant: the url column has no unique constraint
UrlWriteAllowedAlways(st, u, self) == TRUE

UrlWriteAllowed(st, u, self) ==
    \A j \in DOMAIN st : j # self => st[j].url # u

\* models.py: created_at is auto_now_add, an update keeps it
\* mutant: created_at declared auto_now, refreshed on every save
CreatedAtRefreshed(row, now) == now

CreatedAtOnUpdate(row, now) == row.created_at

\* update_or_create writes inside transaction.atomic: a refused write leaves
\* the table as it was
\* mutant: the refused write stays in the table
WriteKept(st, written) == written

RolledBack(st, written) == st

\* Listing.objects.update_or_create(serial=..., defaults=...): the row with the
\* serial is updated with the defaults, or a row is created; an IntegrityError
\* rolls the write back and is raised
UpdateOrCreate(st, serial, d, now) ==
    LET found == {i \in DOMAIN st : st[i].serial = serial}
    IN  IF found = {}
        THEN LET written == Append(st, Row(serial, d, now, now))
             IN  IF UrlWriteAllowed(st, d.url, 0)
                 THEN [ok |-> TRUE, created |-> TRUE, store |-> written]
                 ELSE [ok |-> FALSE, created |-> FALSE,
                       store |-> RolledBack(st, written)]
        ELSE IF Cardinality(found) > 1
        THEN [ok |-> FALSE, created |-> FALSE, store |-> st]
        ELSE LET i == CHOOSE k \in found : TRUE
                 written == [st EXCEPT ![i] =
                                Overwritten(st[i], d, CreatedAtOnUpdate(st[i], now), now)]
             IN  IF UrlWriteAllowed(st, d.url, i)
                 THEN [ok |-> TRUE, created |-> FALSE, store |-> written]
                 ELSE [ok |-> FALSE, created |-> FALSE,
                       store |-> RolledBack(st, written)]

\* views.py: the except branch of the loop body prints and continues with the
\* next record
\* mutant: no per-record try/except, the first failure ends the loop
AbortAfterFailure(i, n) == n

AfterFailure(i, n) == i + 1

\* views.py: "if created: new_listings_count += 1"
\* mutant: every upsert is counted as new
CountEvery(created, n) == n + 1

CountNew(created, n) == IF created THEN n + 1 ELSE n

NoOp == [serial |-> 0, existed |-> FALSE, ok |-> FALSE, created |-> FALSE,
         before |-> <<>>, rec |-> Rec(0, 0, "")]

UIdle ==
    /\ store = <<>>
    /\ clock = 0
    /\ upc = "off"
    /\ crawler_data = <<>>
    /\ idx = 0
    /\ new_listings_count = 0
    /\ current_listings = <<>>
    /\ errlog = <<>>
    /\ runNo = 0
    /\ repeat = FALSE
    /\ snap = <<>>
    /\ prevFailed = 0
    /\ outcomes = <<>>
    /\ lastOp = NoOp

UInit ==
    /\ store \in SeedStores
    /\ clock = 1
    /\ upc = "idle"
    /\ crawler_data = <<>>
    /\ idx = 0
    /\ new_listings_count = 0
    /\ current_listings = <<>>
    /\ errlog = <<>>
    /\ runNo = 0
    /\ repeat = FALSE
    /\ snap = store
    /\ prevFailed = 0
    /\ outcomes = <<>>
    /\ lastOp = NoOp

\* views.py: crawler_data arrives; current_listings = []; new_listings_count = 0.
\* The run after the first is given the same crawler_data again.
StartRun ==
    /\ upc \in {"idle", "done"}
    /\ ~repeat
    /\ IF runNo = 0
       THEN \E batch \in Batches : crawler_data' = batch
       ELSE UNCHANGED crawler_data
    /\ repeat' = (runNo > 0)
    /\ runNo' = runNo + 1
    /\ snap' = store
    /\ prevFailed' = Len(errlog)
    /\ idx' = 0
    /\ new_listings_count' = 0
    /\ current_listings' = <<>>
    /\ errlog' = <<>>
    /\ outcomes' = <<>>
    /\ lastOp' = NoOp
    /\ upc' = "loop"
    /\ UNCHANGED <<store, clock>>

\* views.py: one iteration of "for item in crawler_data"
UpsertRecord ==
    /\ upc = "loop"
    /\ idx < Len(crawler_data)
    /\ LET it == crawler_data[idx + 1]
           r == UpdateOrCreate(store, it.serial, Defaults(it), clock)
       IN  /\ store' = r.store
           /\ lastOp' = [serial |-> it.serial,
                         existed |-> \E i \in DOMAIN store : store[i].serial = it.serial,
                         ok |-> r.ok, created |-> r.created, before |-> store,
                         rec |-> it]
           /\ IF r.ok
              THEN /\ new_listings_count' = CountNew(r.created, new_listings_count)
                   /\ current_listings' = Append(current_listings, it.serial)
                   /\ outcomes' = Append(outcomes,
                                         IF r.created THEN "created" ELSE "updated")
                   /\ idx' = idx + 1
                   /\ UNCHANGED errlog
              ELSE /\ errlog' = Append(errlog, it.serial)
                   /\ outcomes' = Append(outcomes, "failed")
                   /\ idx' = AfterFailure(idx, Len(crawler_data))
                   /\ UNCHANGED <<new_listings_count, current_listings>>
    /\ clock' = clock + 1
    /\ UNCHANGED <<upc, crawler_data, runNo, repeat, snap, prevFailed>>

\* views.py: context.update(... total_count = len(current_listings),
\* new_count = new_listings_count)
FinishRun ==
    /\ upc = "loop"
    /\ idx >= Len(crawler_data)
    /\ upc' = "done"
    /\ UNCHANGED <<store, clock, crawler_data, idx, new_listings_count,
                   current_listings, errlog, runNo, repeat, snap, prevFailed,
                   outcomes, lastOp>>

(***************************************************************************)
(* The search URL built by get_rent_data (crawler.py).  A string is a      *)
(* sequence of characters; "quan" and "qu" stand for the two characters of *)
(* the all-districts value, and a word without "/" that is only copied     *)
(* ("region", "purpid", a filter value) is one element.                    *)
(***************************************************************************)
\* None, kept apart from every string by an element no string holds
None == <<"None">>

AllDistricts == <<"quan", "qu">>

CountyChars == {"/", "c"}
DistrictChars == {"/", "d", "quan", "qu"}

Counties == {None} \cup SeqsUpTo(CountyChars, MaxNameLen)
Districts == {None} \cup SeqsUpTo(DistrictChars, MaxNameLen)
HouseTypes == {None, <<>>, <<"1">>}
RentRanges == {None, <<>>, <<"RP7">>}

\* mutant: the test is dropped, every value passes
AlwaysTruthy(v) == TRUE

\* Python truth value of an optional string
Truthy(v) == v # None /\ v # <<>>

base_url == <<"https:", "/", "/", "rent.housefun.com.tw", "/">>

\* s.split('/')
RECURSIVE Split(_)
Split(s) ==
    IF s = <<>> THEN << <<>> >>
    ELSE LET rest == Split(Tail(s)) IN
         IF Head(s) = "/" THEN << <<>> >> \o rest
         ELSE << <<Head(s)>> \o Head(rest) >> \o Tail(rest)

\* '/'.join(segs)
RECURSIVE Join(_)
Join(segs) ==
    IF segs = <<>> THEN <<>>
    ELSE IF Len(segs) = 1 THEN Head(segs)
    ELSE Head(segs) \o <<"/">> \o Join(Tail(segs))

\* mutant: the generator keeps every segment
KeepEverySegment(seg) == TRUE

\* "for s in ... if s"
NonEmptySegment(seg) == seg # <<>>

\* '/'.join(s for s in name.split('/') if s)
Encoded(name) == Join(SelectSeq(Split(name), NonEmptySegment))

\* the params list
Params(ht, rr) ==
    (IF Truthy(ht) THEN << <<"purpid", "=">> \o ht >> ELSE <<>>)
    \o (IF Truthy(rr) THEN << <<"rpid", "=">> \o rr >> ELSE <<>>)

\* "&".join(params)
RECURSIVE JoinAmp(_)
JoinAmp(ps) ==
    IF ps = <<>> THEN <<>>
    ELSE IF Len(ps) = 1 THEN Head(ps)
    ELSE Head(ps) \o <<"&">> \o JoinAmp(Tail(ps))

BuildUrl(c, d, ht, rr) ==
    IF Truthy(c)
    THEN LET u1 == base_url \o <<"region", "/">> \o Encoded(c)
             u2 == IF Truthy(d) /\ d # AllDistricts
                   THEN u1 \o <<"_">> \o Encoded(d) ELSE u1
             u3 == u2 \o <<"/">>
             params == Params(ht, rr)
         IN  IF params # <<>> THEN u3 \o <<"?">> \o JoinAmp(params) ELSE u3
    ELSE base_url

BIdle ==
    /\ county = None
    /\ district = None
    /\ house_type = None
    /\ rent_range = None
    /\ url = <<>>
    /\ bpc = "off"

BInit ==
    /\ county \in Counties
    /\ district \in Districts
    /\ house_type \in HouseTypes
    /\ rent_range \in RentRanges
    /\ url = <<>>
    /\ bpc = "args"

\* crawler.py lines 30-56
Build ==
    /\ bpc = "args"
    /\ url' = BuildUrl(county, district, house_type, rent_range)
    /\ bpc' = "built"
    /\ UNCHANGED <<county, district, house_type, rent_range>>

(***************************************************************************)
(* The views rent_list and get_all_rent_list (views.py).  A call of        *)
(* get_rent_data is one step: it raises when the browser cannot be started *)
(* (LaunchFails, FinallyUnbound) and returns a list otherwise.             *)
(***************************************************************************)
\* the list of views.py, cut to its first MaxCities counties
chinese_cities ==
    SubSeq(<<"Penghu", "Kinmen", "Lienchiang", "Yilan", "Hualien", "Taitung">>,
           1, MaxCities)

\* the records a county's crawl can return: any serial and url, one text
CountyRecords == {Rec(s, u, "a") : s \in Serials, u \in Urls}

NoResponse == [kind |-> "none"]

\* render(request, 'rent_list.html', context)
Page(error_message, total_count, new_count) ==
    [kind |-> "page", error_message |-> error_message,
     total_count |-> total_count, new_count |-> new_count]

\* JsonResponse({'status': ..., 'new_listings_count': ..., 'error_count': ...})
Json(status, code, new_count, error_count) ==
    [kind |-> "json", status |-> status, code |-> code,
     new_listings_count |-> new_count, error_count |-> error_count]

\* views.py: the except around get_rent_data ends with "continue"
\* mutant: the except leaves the loop over the counties
AbortCrawl(i, n) == n + 1

AfterCrawlError(i, n) == i + 1

VIdle ==
    /\ view = "none"
    /\ vpc = "off"
    /\ city_idx = 0
    /\ crawled = 0
    /\ item_idx = 0
    /\ total_new_listings = 0
    /\ total_errors = 0
    /\ response = NoResponse
    /\ engine_failures = 0
    /\ visited = <<>>
    /\ upsert_failures = 0

VInit ==
    /\ view \in {"rent_list", "get_all_rent_list"}
    /\ vpc = "request"
    /\ city_idx = 0
    /\ crawled = 0
    /\ item_idx = 0
    /\ total_new_listings = 0
    /\ total_errors = 0
    /\ response = NoResponse
    /\ engine_failures = 0
    /\ visited = <<>>
    /\ upsert_failures = 0
    /\ county \in {None, <<>>, <<"c">>}
    /\ (view = "get_all_rent_list" => county = None)
    /\ district = None
    /\ house_type = None
    /\ rent_range = None
    /\ url = <<>>
    /\ bpc = "off"

\* rent_list without a county: no crawl, the page is rendered with no data
RentListNoCounty ==
    /\ view = "rent_list" /\ vpc = "request"
    /\ ~Truthy(county)
    /\ response' = Page("", 0, 0)
    /\ vpc' = "responded"
    /\ UNCHANGED <<view, city_idx, crawled, item_idx, total_new_listings,
                   total_errors, engine_failures, visited, upsert_failures>>
    /\ UNCHANGED uvars

\* rent_list: get_rent_data raises, the outer except renders error_message
RentListCrawlRaises ==
    /\ view = "rent_list" /\ vpc = "request"
    /\ Truthy(county)
    /\ engine_failures' = engine_failures + 1
    /\ response' = Page("error", 0, 0)
    /\ vpc' = "responded"
    /\ UNCHANGED <<view, city_idx, crawled, item_idx, total_new_listings,
                   total_errors, visited, upsert_failures>>
    /\ UNCHANGED uvars

\* rent_list: get_rent_data returns crawler_data
RentListCrawlReturns ==
    /\ view = "rent_list" /\ vpc = "request"
    /\ Truthy(county)
    /\ StartRun
    /\ vpc' = "upsert"
    /\ UNCHANGED <<view, city_idx, crawled, item_idx, total_new_listings,
                   total_errors, response, engine_failures, visited, upsert_failures>>

\* rent_list: one iteration of the upsert loop
RentListUpsert ==
    /\ view = "rent_list" /\ vpc = "upsert"
    /\ UpsertRecord
    /\ UNCHANGED vvars

\* rent_list: context.update(...) and render
RentListRender ==
    /\ view = "rent_list" /\ vpc = "upsert"
    /\ FinishRun
    /\ response' = Page("", Len(current_listings), new_listings_count)
    /\ vpc' = "responded"
    /\ UNCHANGED <<view, city_idx, crawled, item_idx, total_new_listings,
                   total_errors, engine_failures, visited, upsert_failures>>

\* get_all_rent_list: user.check_password(password) fails
GetAllWrongPassword ==
    /\ view = "get_all_rent_list" /\ vpc = "request"
    /\ response' = Json("error", 403, 0, 0)
    /\ vpc' = "responded"
    /\ UNCHANGED <<view, city_idx, crawled, item_idx, total_new_listings,
                   total_errors, engine_failures, visited, upsert_failures>>
    /\ UNCHANGED uvars

\* get_all_rent_list: total_new_listings = 0; total_errors = 0; the for loop
\* over chinese_cities starts
GetAllBegin ==
    /\ view = "get_all_rent_list" /\ vpc = "request"
    /\ total_new_listings' = 0
    /\ total_errors' = 0
    /\ city_idx' = 1
    /\ vpc' = "crawl"
    /\ UNCHANGED <<view, crawled, item_idx, response, engine_failures, visited, upsert_failures>>
    /\ UNCHANGED uvars

\* get_all_rent_list: get_rent_data raises for the county: total_errors += 1
\* and continue
GetAllCrawlRaises ==
    /\ view = "get_all_rent_list" /\ vpc = "crawl"
    /\ city_idx <= Len(chinese_cities)
    /\ engine_failures' = engine_failures + 1
    /\ visited' = Append(visited, chinese_cities[city_idx])
    /\ total_errors' = total_errors + 1
    /\ city_idx' = AfterCrawlError(city_idx, Len(chinese_cities))
    /\ UNCHANGED <<view, vpc, crawled, item_idx, total_new_listings, response,
                   upsert_failures>>
    /\ UNCHANGED uvars

\* get_all_rent_list: get_rent_data returns the county's crawler_data; its
\* records are drawn when the loop reaches them
GetAllCrawlReturns ==
    /\ view = "get_all_rent_list" /\ vpc = "crawl"
    /\ city_idx <= Len(chinese_cities)
    /\ \E n \in 0..MaxCrawled : crawled' = n
    /\ visited' = Append(visited, chinese_cities[city_idx])
    /\ item_idx' = 0
    /\ vpc' = "upsert"
    /\ UNCHANGED <<view, city_idx, total_new_listings, total_errors, response,
                   engine_failures, upsert_failures>>
    /\ UNCHANGED uvars

\* get_all_rent_list: one iteration of "for item in crawler_data"
GetAllUpsert ==
    /\ view = "get_all_rent_list" /\ vpc = "upsert"
    /\ item_idx < crawled
    /\ \E it \in CountyRecords :
        LET r == UpdateOrCreate(store, it.serial, Defaults(it), clock)
        IN  /\ store' = r.store
            /\ IF r.ok
               THEN /\ total_new_listings' = CountNew(r.created, total_new_listings)
                    /\ item_idx' = item_idx + 1
                    /\ UNCHANGED <<total_errors, upsert_failures>>
               ELSE /\ total_errors' = total_errors + 1
                    /\ upsert_failures' = upsert_failures + 1
                    /\ item_idx' = AfterFailure(item_idx, crawled)
                    /\ UNCHANGED total_new_listings
    /\ clock' = clock + 1
    /\ UNCHANGED <<view, vpc, city_idx, crawled, response, engine_failures, visited>>
    /\ UNCHANGED <<upc, crawler_data, idx, new_listings_count, current_listings,
                   errlog, runNo, repeat, snap, prevFailed, outcomes, lastOp>>

\* get_all_rent_list: the county's records are done: sleep, counter += 1
GetAllNextCity ==
    /\ view = "get_all_rent_list" /\ vpc = "upsert"
    /\ item_idx >= crawled
    /\ city_idx' = city_idx + 1
    /\ vpc' = "crawl"
    /\ UNCHANGED <<view, crawled, item_idx, total_new_listings, total_errors,
                   response, engine_failures, visited, upsert_failures>>
    /\ UNCHANGED uvars

\* get_all_rent_list: the loop over chinese_cities is over
GetAllRespond ==
    /\ view = "get_all_rent_list" /\ vpc = "crawl"
    /\ city_idx > Len(chinese_cities)
    /\ response' = Json("success", 200, total_new_listings, total_errors)
    /\ vpc' = "responded"
    /\ UNCHANGED <<view, city_idx, crawled, item_idx, total_new_listings,
                   total_errors, engine_failures, visited, upsert_failures>>
    /\ UNCHANGED uvars

(***************************************************************************)
(* Two requests (rent_list or get_all_rent_list) whose upsert loops run at *)
(* the same time against the Listing table.  update_or_create is one step: *)
(* the database serialises the writes to one key.  The records of a        *)
(* request are drawn when its loop reaches them.                           *)
(***************************************************************************)
Requests == {1, 2}

\* mutant: the lookup sees the table as it was when the requests started
TableAtStart(current, at_start) == at_start

\* update_or_create reads the table inside the call
TableRead(current, at_start) == current

KIdle ==
    /\ crawled_by = [p \in Requests |-> 0]
    /\ attempted = [p \in Requests |-> 0]
    /\ new_by = [p \in Requests |-> 0]
    /\ created_log = {}

KInit ==
    /\ crawled_by \in [Requests -> 0..MaxBatch]
    /\ attempted = [p \in Requests |-> 0]
    /\ new_by = [p \in Requests |-> 0]
    /\ created_log = {}

\* one iteration of "for item in crawler_data" of request p
RequestUpsert(p) ==
    /\ attempted[p] < crawled_by[p]
    /\ \E it \in CountyRecords :
        LET r == UpdateOrCreate(TableRead(store, snap), it.serial, Defaults(it), clock)
        IN  /\ store' = r.store
            /\ IF r.ok
               THEN /\ new_by' = [new_by EXCEPT ![p] = CountNew(r.created, @)]
                    /\ attempted' = [attempted EXCEPT ![p] = @ + 1]
                    /\ created_log' =
                          IF r.created
                          THEN created_log \cup
                               {[request |-> p, serial |-> it.serial, at |-> clock]}
                          ELSE created_log
               ELSE /\ attempted' =
                          [attempted EXCEPT ![p] = AfterFailure(@, crawled_by[p])]
                    /\ UNCHANGED <<new_by, created_log>>
    /\ clock' = clock + 1
    /\ UNCHANGED crawled_by
    /\ UNCHANGED <<upc, crawler_data, idx, new_listings_count, current_listings,
                   errlog, runNo, repeat, snap, prevFailed, outcomes, lastOp>>

(***************************************************************************)
(* preprocess_listing_data (views.py): the city label of one listing.  A   *)
(* character is written by its reading: <<"xin", "zhu", "shi">> is the     *)
(* three-character name of Hsinchu City.                                   *)
(***************************************************************************)
\* the keys of TAIWAN_CITIES that can be written with AddrChars, in the order
\* of the table: New Taipei City, Hsinchu City, Hsinchu County; an address is
\* written with their characters and one more, "lu"
TAIWAN_CITIES ==
    << <<"xin", "bei", "shi">>, <<"xin", "zhu", "shi">>, <<"xin", "zhu", "xian">> >>

\* sorted(xs, key=len, reverse=True): stable, longer names first
RECURSIVE SortedByLenDesc(_)
SortedByLenDesc(xs) ==
    IF xs = <<>> THEN <<>>
    ELSE LET rest == SortedByLenDesc(Tail(xs))
             k == Cardinality({i \in DOMAIN rest : Len(rest[i]) > Len(Head(xs))})
         IN  SubSeq(rest, 1, k) \o <<Head(xs)>> \o SubSeq(rest, k + 1, Len(rest))

sorted_chinese_cities == SortedByLenDesc(TAIWAN_CITIES)

\* "city in listing.addr"
CityIn(city, a) ==
    \E i \in 1..(Len(a) - Len(city) + 1) : SubSeq(a, i, i + Len(city) - 1) = city

FoundAnywhere(a, city) == CityIn(city, a)

\* listing.addr.startswith(city)
StartsWith(a, city) ==
    Len(city) <= Len(a) /\ SubSeq(a, 1, Len(city)) = city

\* "for city in xs: if ...: break": the first element of xs among those at
\* the positions hits, none if hits is empty
FirstOf(xs, hits) ==
    IF hits = {} THEN <<>>
    ELSE << xs[CHOOSE i \in hits : \A j \in hits : i <= j] >>

\* the two loops of preprocess_listing_data
CityLabel(a) ==
    LET byPrefix ==
            FirstOf(sorted_chinese_cities,
                    {i \in DOMAIN sorted_chinese_cities : StartsWith(a, sorted_chinese_cities[i])})
        anywhere ==
            FirstOf(TAIWAN_CITIES, {i \in DOMAIN TAIWAN_CITIES : CityIn(TAIWAN_CITIES[i], a)})
    IN  IF byPrefix # <<>> THEN byPrefix[1]
        ELSE IF anywhere # <<>> THEN anywhere[1]
        ELSE <<"qi", "ta">>        \* the label '其他'

PIdle ==
    /\ listing_addr = <<>>
    /\ city_zh = <<>>
    /\ ppc = "off"

PInit ==
    /\ listing_addr \in SeqsUpTo({"xin", "bei", "zhu", "shi", "xian", "lu"}, MaxAddrLen)
    /\ city_zh = <<>>
    /\ ppc = "listing"

\* one iteration of "for listing in listings", up to the city label
LabelListing ==
    /\ ppc = "listing"
    /\ city_zh' = CityLabel(listing_addr)
    /\ ppc' = "labelled"
    /\ UNCHANGED listing_addr

(***************************************************************************)
(* geocode_missing_listings (views.py).  A row of the table is its addr    *)
(* ("" or an address) and its location ("null", "old" for a point it had   *)
(* before the request, "new" for a point this request saved).              *)
(***************************************************************************)
GeoRows == [addr : {"", "addr"}, location : {"null", "old"}]

\* what requests.get and response.json() can give for one address
GeoReplies ==
    {"OK", "OK_no_results", "ZERO_RESULTS", "REQUEST_DENIED",
     "RequestException", "not_json"}

\* Listing.objects.filter(location__isnull=True)
EveryRow(row) == TRUE

LocationIsNull(row) == row.location = "null"

\* the rows of the filter, in table order
RECURSIVE RowsToGeocode(_, _)
RowsToGeocode(t, i) ==
    IF i > Len(t) THEN <<>>
    ELSE (IF LocationIsNull(t[i]) THEN <<i>> ELSE <<>>) \o RowsToGeocode(t, i + 1)

\* os.environ.get('Maps_API_KEY') or getattr(settings, 'MAPS_API_KEY', None)
Maps_api_key == IF env_key # "" THEN env_key ELSE settings_key

GeoError(code) == [status |-> "error", code |-> code, geocoded_count |-> -1, failed_count |-> -1]

GeoSuccess(g, f) == [status |-> "success", code |-> 200, geocoded_count |-> g, failed_count |-> f]

NoGeoResponse == [status |-> "none", code |-> 0, geocoded_count |-> -1, failed_count |-> -1]

GIdle ==
    /\ geo_table = <<>>
    /\ password_ok = FALSE
    /\ env_key = ""
    /\ settings_key = ""
    /\ listings_to_geocode = <<>>
    /\ geocoded_count = 0
    /\ failed_count = 0
    /\ geo_response = NoGeoResponse
    /\ gpc = "off"
    /\ geo_start = <<>>
    /\ geo_log = <<>>

GInit ==
    /\ geo_table \in UNION {[1..n -> GeoRows] : n \in 0..MaxListings}
    /\ password_ok \in BOOLEAN
    /\ env_key \in {"", "envkey"}
    /\ settings_key \in {"", "key"}
    /\ listings_to_geocode = <<>>
    /\ geocoded_count = 0
    /\ failed_count = 0
    /\ geo_response = NoGeoResponse
    /\ gpc = "start"
    /\ geo_start = geo_table
    /\ geo_log = <<>>

\* "if not user.check_password(password)": 403
GeocodeWrongPassword ==
    /\ gpc = "start"
    /\ ~password_ok
    /\ geo_response' = GeoError(403)
    /\ gpc' = "done"
    /\ UNCHANGED <<geo_table, password_ok, env_key, settings_key, listings_to_geocode,
                   geocoded_count, failed_count, geo_start, geo_log>>

\* "if not Maps_api_key": 500
GeocodeNoKey ==
    /\ gpc = "start"
    /\ password_ok
    /\ Maps_api_key = ""
    /\ geo_response' = GeoError(500)
    /\ gpc' = "done"
    /\ UNCHANGED <<geo_table, password_ok, env_key, settings_key, listings_to_geocode,
                   geocoded_count, failed_count, geo_start, geo_log>>

\* the queryset is evaluated when the loop starts
GeocodeBegin ==
    /\ gpc = "start"
    /\ password_ok
    /\ Maps_api_key # ""
    /\ listings_to_geocode' = RowsToGeocode(geo_table, 1)
    /\ geocoded_count' = 0
    /\ failed_count' = 0
    /\ gpc' = "loop"
    /\ UNCHANGED <<geo_table, password_ok, env_key, settings_key, geo_response,
                   geo_start, geo_log>>

\* "if not address: failed_count += 1; continue"
GeocodeNoAddress ==
    /\ gpc = "loop"
    /\ listings_to_geocode # <<>>
    /\ LET i == Head(listings_to_geocode)
       IN  /\ geo_table[i].addr = ""
           /\ failed_count' = failed_count + 1
           /\ geo_log' = Append(geo_log, [row |-> i, request |-> FALSE, reply |-> "none"])
    /\ listings_to_geocode' = Tail(listings_to_geocode)
    /\ UNCHANGED <<geo_table, password_ok, env_key, settings_key, geocoded_count,
                   geo_response, gpc, geo_start>>

\* the try block for one address: only 'OK' with a result saves the point,
\* every other status and every exception adds to failed_count
GeocodeAddress ==
    /\ gpc = "loop"
    /\ listings_to_geocode # <<>>
    /\ LET i == Head(listings_to_geocode)
       IN  /\ geo_table[i].addr # ""
           /\ \E reply \in GeoReplies :
                /\ geo_log' = Append(geo_log, [row |-> i, request |-> TRUE, reply |-> reply])
                /\ IF reply = "OK"
                   THEN /\ geo_table' = [geo_table EXCEPT ![i].location = "new"]
                        /\ geocoded_count' = geocoded_count + 1
                        /\ UNCHANGED failed_count
                   ELSE /\ failed_count' = failed_count + 1
                        /\ UNCHANGED <<geo_table, geocoded_count>>
    /\ listings_to_geocode' = Tail(listings_to_geocode)
    /\ UNCHANGED <<password_ok, env_key, settings_key, geo_response, gpc, geo_start>>

\* the iterator is exhausted: the success response with both counts
GeocodeRespond ==
    /\ gpc = "loop"
    /\ listings_to_geocode = <<>>
    /\ geo_response' = GeoSuccess(geocoded_count, failed_count)
    /\ gpc' = "done"
    /\ UNCHANGED <<geo_table, password_ok, env_key, settings_key, listings_to_geocode,
                   geocoded_count, failed_count, geo_start, geo_log>>

(***************************************************************************)
(* login_view, change_password and deactivate_account (views.py) for one   *)
(* RentUser row and one session.                                           *)
(***************************************************************************)
Passwords == {"pw1", "pw2"}

\* request.POST.get(field): a value, or None ("absent") when the field is missing
PostValues == Passwords \cup {"absent"}

\* request.method
Methods == {"GET", "POST"}

RentUsers ==
    [is_active : BOOLEAN, is_staff : BOOLEAN, is_superuser : BOOLEAN, password : Passwords]

\* user.check_password(raw): None never verifies, nor does anything against
\* an unusable password
check_password(u, raw) == raw # "absent" /\ u.password = raw

\* user.set_password(raw): None gives an unusable password
set_password(u, raw) ==
    [u EXCEPT !.password = IF raw = "absent" THEN "unusable" ELSE raw]

\* authenticate(request, username, password) with the ModelBackend: the
\* user exists, the password verifies and the user is active
authenticate(u, username, password) ==
    username = "user" /\ check_password(u, password) /\ u.is_active

IsStaffAndSuperuser(u) == u.is_staff /\ u.is_superuser

\* "user.is_staff or user.is_superuser"
IsAdmin(u) == u.is_staff \/ u.is_superuser

NoRequest == [view |-> "none", method |-> "GET", username |-> "nobody",
              f1 |-> "absent", f2 |-> "absent", f3 |-> "absent", result |-> "none"]

Request(v, m, n, a, b, c, r) ==
    [view |-> v, method |-> m, username |-> n, f1 |-> a, f2 |-> b, f3 |-> c, result |-> r]

AIdle ==
    /\ rent_user = [is_active |-> FALSE, is_staff |-> FALSE, is_superuser |-> FALSE,
                    password |-> "unusable"]
    /\ logged_in = FALSE
    /\ last_request = NoRequest
    /\ user_before = rent_user
    /\ logged_before = FALSE

AInit ==
    /\ rent_user \in RentUsers
    /\ logged_in \in BOOLEAN
    /\ logged_in => rent_user.is_active
    /\ last_request = NoRequest
    /\ user_before = rent_user
    /\ logged_before = logged_in

Remember ==
    /\ user_before' = rent_user
    /\ logged_before' = logged_in

\* login_view
LoginView ==
    \E m \in Methods, username \in {"user", "nobody"}, password \in PostValues :
        LET result ==
                IF m # "POST" THEN "page"
                ELSE IF username # "user" THEN "no such account"
                ELSE IF ~rent_user.is_active THEN "deactivated"
                ELSE IF authenticate(rent_user, username, password) THEN "redirect"
                ELSE "wrong password"
        IN  /\ logged_in' = (IF result = "redirect" THEN TRUE ELSE logged_in)
            /\ last_request' = Request("login_view", m, username, password, "absent", "absent", result)
            /\ UNCHANGED rent_user
            /\ Remember

\* change_password, behind login_required; saved is whether user.save() succeeds
ChangePassword ==
    \E m \in Methods, old_password \in PostValues, new_password1 \in PostValues,
       new_password2 \in PostValues, saved \in BOOLEAN :
        LET result ==
                IF ~logged_in THEN "to login"
                ELSE IF m # "POST" THEN "invalid method"
                ELSE IF ~check_password(rent_user, old_password) THEN "old password wrong"
                ELSE IF new_password1 = old_password THEN "same as old"
                ELSE IF new_password1 # new_password2 THEN "entries differ"
                ELSE IF saved THEN "success"
                ELSE "error"
        IN  /\ rent_user' = (IF result = "success" THEN set_password(rent_user, new_password1)
                                                   ELSE rent_user)
            /\ logged_in' = (IF result = "success" THEN FALSE ELSE logged_in)
            /\ last_request' = Request("change_password", m, "user", old_password,
                                       new_password1, new_password2, result)
            /\ Remember

\* deactivate_account, behind login_required
DeactivateAccount ==
    \E m \in Methods, password \in PostValues, saved \in BOOLEAN :
        LET result ==
                IF ~logged_in THEN "to login"
                ELSE IF m # "POST" THEN "invalid method"
                ELSE IF ~check_password(rent_user, password) THEN "wrong password"
                ELSE IF IsAdmin(rent_user) THEN "admin"
                ELSE IF saved THEN "success"
                ELSE "error"
        IN  /\ rent_user' = (IF result = "success" THEN [rent_user EXCEPT !.is_active = FALSE]
                                                   ELSE rent_user)
            /\ logged_in' = (IF result = "success" THEN FALSE ELSE logged_in)
            /\ last_request' = Request("deactivate_account", m, "user", password,
                                       "absent", "absent", result)
            /\ Remember

(***************************************************************************)
(* Specifications.                                                         *)
(***************************************************************************)
InitExtract == XInit /\ CIdle /\ UIdle /\ BIdle /\ VIdle /\ KIdle /\ PIdle /\ GIdle /\ AIdle

NextExtract ==
    \/ BrowserItem /\ UNCHANGED <<cvars, uvars, bvars, vvars, kvars, pvars, gvars, avars>>
    \/ RequestsItem /\ UNCHANGED <<cvars, uvars, bvars, vvars, kvars, pvars, gvars, avars>>

SpecExtract == InitExtract /\ [][NextExtract]_vars

InitCrawl == XIdle /\ CInit /\ UIdle /\ BIdle /\ VIdle /\ KIdle /\ PIdle /\ GIdle /\ AIdle

NextCrawl ==
    \/ Launch /\ UNCHANGED <<xvars, uvars, bvars, vvars, kvars, pvars, gvars, avars>>
    \/ LaunchFails /\ UNCHANGED <<xvars, uvars, bvars, vvars, kvars, pvars, gvars, avars>>
    \/ Get /\ UNCHANGED <<xvars, uvars, bvars, vvars, kvars, pvars, gvars, avars>>
    \/ GetFails /\ UNCHANGED <<xvars, uvars, bvars, vvars, kvars, pvars, gvars, avars>>
    \/ LoopTest /\ UNCHANGED <<xvars, uvars, bvars, vvars, kvars, pvars, gvars, avars>>
    \/ WaitAndExtract /\ UNCHANGED <<xvars, uvars, bvars, vvars, kvars, pvars, gvars, avars>>
    \/ WaitTimesOut /\ UNCHANGED <<xvars, uvars, bvars, vvars, kvars, pvars, gvars, avars>>
    \/ StopPaging /\ UNCHANGED <<xvars, uvars, bvars, vvars, kvars, pvars, gvars, avars>>
    \/ NextPage /\ UNCHANGED <<xvars, uvars, bvars, vvars, kvars, pvars, gvars, avars>>
    \/ NextPageFails /\ UNCHANGED <<xvars, uvars, bvars, vvars, kvars, pvars, gvars, avars>>
    \/ Return /\ UNCHANGED <<xvars, uvars, bvars, vvars, kvars, pvars, gvars, avars>>
    \/ Finally /\ UNCHANGED <<xvars, uvars, bvars, vvars, kvars, pvars, gvars, avars>>
    \/ FinallyUnbound /\ UNCHANGED <<xvars, uvars, bvars, vvars, kvars, pvars, gvars, avars>>

SpecCrawl == InitCrawl /\ [][NextCrawl]_vars

\* every bounded wait and every browser call returns or raises, so a step of
\* get_rent_data that can be taken is taken
SpecCrawlFair == SpecCrawl /\ WF_vars(NextCrawl)

InitUpsert == XIdle /\ CIdle /\ UInit /\ BIdle /\ VIdle /\ KIdle /\ PIdle /\ GIdle /\ AIdle

NextUpsert ==
    \/ StartRun /\ UNCHANGED <<xvars, cvars, bvars, vvars, kvars, pvars, gvars, avars>>
    \/ UpsertRecord /\ UNCHANGED <<xvars, cvars, bvars, vvars, kvars, pvars, gvars, avars>>
    \/ FinishRun /\ UNCHANGED <<xvars, cvars, bvars, vvars, kvars, pvars, gvars, avars>>

SpecUpsert == InitUpsert /\ [][NextUpsert]_vars

InitUrl == XIdle /\ CIdle /\ UIdle /\ BInit /\ VIdle /\ KIdle /\ PIdle /\ GIdle /\ AIdle

NextUrl == Build /\ UNCHANGED <<xvars, cvars, uvars, vvars, kvars, pvars, gvars, avars>>

SpecUrl == InitUrl /\ [][NextUrl]_vars

InitViews == XIdle /\ CIdle /\ UInit /\ VInit /\ KIdle /\ PIdle /\ GIdle /\ AIdle

NextViews ==
    \/ RentListNoCounty /\ UNCHANGED <<xvars, cvars, bvars, kvars, pvars, gvars, avars>>
    \/ RentListCrawlRaises /\ UNCHANGED <<xvars, cvars, bvars, kvars, pvars, gvars, avars>>
    \/ RentListCrawlReturns /\ UNCHANGED <<xvars, cvars, bvars, kvars, pvars, gvars, avars>>
    \/ RentListUpsert /\ UNCHANGED <<xvars, cvars, bvars, kvars, pvars, gvars, avars>>
    \/ RentListRender /\ UNCHANGED <<xvars, cvars, bvars, kvars, pvars, gvars, avars>>
    \/ GetAllWrongPassword /\ UNCHANGED <<xvars, cvars, bvars, kvars, pvars, gvars, avars>>
    \/ GetAllBegin /\ UNCHANGED <<xvars, cvars, bvars, kvars, pvars, gvars, avars>>
    \/ GetAllCrawlRaises /\ UNCHANGED <<xvars, cvars, bvars, kvars, pvars, gvars, avars>>
    \/ GetAllCrawlReturns /\ UNCHANGED <<xvars, cvars, bvars, kvars, pvars, gvars, avars>>
    \/ GetAllUpsert /\ UNCHANGED <<xvars, cvars, bvars, kvars, pvars, gvars, avars>>
    \/ GetAllNextCity /\ UNCHANGED <<xvars, cvars, bvars, kvars, pvars, gvars, avars>>
    \/ GetAllRespond /\ UNCHANGED <<xvars, cvars, bvars, kvars, pvars, gvars, avars>>

SpecViews == InitViews /\ [][NextViews]_vars

InitConcurrent == XIdle /\ CIdle /\ UInit /\ BIdle /\ VIdle /\ KInit /\ PIdle /\ GIdle /\ AIdle

NextConcurrent ==
    \E p \in Requests : RequestUpsert(p) /\ UNCHANGED <<xvars, cvars, bvars, vvars, pvars, gvars, avars>>

SpecConcurrent == InitConcurrent /\ [][NextConcurrent]_vars

InitLabel == XIdle /\ CIdle /\ UIdle /\ BIdle /\ VIdle /\ KIdle /\ PInit /\ GIdle /\ AIdle

NextLabel == LabelListing /\ UNCHANGED <<xvars, cvars, uvars, bvars, vvars, kvars, gvars, avars>>

SpecLabel == InitLabel /\ [][NextLabel]_vars

InitGeocode == XIdle /\ CIdle /\ UIdle /\ BIdle /\ VIdle /\ KIdle /\ PIdle /\ GInit /\ AIdle

NextGeocode ==
    \/ GeocodeWrongPassword /\ UNCHANGED <<xvars, cvars, uvars, bvars, vvars, kvars, pvars, avars>>
    \/ GeocodeNoKey /\ UNCHANGED <<xvars, cvars, uvars, bvars, vvars, kvars, pvars, avars>>
    \/ GeocodeBegin /\ UNCHANGED <<xvars, cvars, uvars, bvars, vvars, kvars, pvars, avars>>
    \/ GeocodeNoAddress /\ UNCHANGED <<xvars, cvars, uvars, bvars, vvars, kvars, pvars, avars>>
    \/ GeocodeAddress /\ UNCHANGED <<xvars, cvars, uvars, bvars, vvars, kvars, pvars, avars>>
    \/ GeocodeRespond /\ UNCHANGED <<xvars, cvars, uvars, bvars, vvars, kvars, pvars, avars>>

SpecGeocode == InitGeocode /\ [][NextGeocode]_vars

InitAccount ==
    XIdle /\ CIdle /\ UIdle /\ BIdle /\ VIdle /\ KIdle /\ PIdle /\ GIdle /\ AInit

NextAccount ==
    \/ LoginView /\ UNCHANGED <<xvars, cvars, uvars, bvars, vvars, kvars, pvars, gvars>>
    \/ ChangePassword /\ UNCHANGED <<xvars, cvars, uvars, bvars, vvars, kvars, pvars, gvars>>
    \/ DeactivateAccount /\ UNCHANGED <<xvars, cvars, uvars, bvars, vvars, kvars, pvars, gvars>>

SpecAccount == InitAccount /\ [][NextAccount]_vars

\* get_rent_data called on its own, or a request served by a view
InitCalls == InitUrl \/ InitViews

NextCalls == NextUrl \/ NextViews

SpecCalls == InitCalls /\ [][NextCalls]_vars

(***************************************************************************)
(* Properties.                                                             *)
(***************************************************************************)
PlainFields == {"title", "addr", "level", "pattern", "rent", "parking",
                "area", "agent", "update_time"}

\* the fields an upsert writes: the plain fields and url
SameFields(a, b) ==
    /\ a.serial = b.serial
    /\ a.url = b.url
    /\ \A f \in PlainFields : a[f] = b[f]

FailedCount(o) == Cardinality({i \in DOMAIN o : o[i] = "failed"})

RECURSIVE FailedSerials(_, _)
FailedSerials(batch, o) ==
    IF o = <<>> THEN <<>>
    ELSE LET n == Len(o)
             rest == FailedSerials(batch, SubSeq(o, 1, n - 1))
         IN  IF o[n] = "failed" THEN Append(rest, batch[n].serial) ELSE rest

\* C3: the upsert loop attempts the records of the batch one after the other;
\* a failed record does not stop the loop, so at the end every record has been
\* attempted, a record that did not fail is in the store, the number of
\* records reported as persisted is the batch size minus the number of failed
\* records, and the error output holds the serials of the failed records, one
\* entry each, in order.
C3_FailuresAreIsolated ==
    /\ Len(outcomes) = idx
    /\ Len(current_listings) = idx - FailedCount(outcomes)
    /\ errlog = FailedSerials(crawler_data, outcomes)
    /\ (upc = "loop" /\ idx > 0 /\ lastOp.ok) =>
        \E i \in DOMAIN store : SameFields(store[i], lastOp.rec)
    /\ upc = "done" =>
        /\ Len(outcomes) = Len(crawler_data)
        /\ Len(current_listings) = Len(crawler_data) - Len(errlog)

C3_Witness ==
    /\ upc = "done"
    /\ Len(crawler_data) = 2
    /\ outcomes = <<"failed", "created">>
    /\ Len(current_listings) = 1
    /\ Len(errlog) = 1

IsWait(e) == e.op = "wait"

OkWait(e) == e.op = "wait" /\ e.res = "ok"

\* C4: a page after the first is waited for only after the page before it
\* returned at least 10 blocks and the control labelled with its number was
\* found and clicked; after a page with fewer than 10 blocks, or after the
\* control was not found, no page is attempted, whatever max_pages is.
C4_NextPageNeedsFullPageAndControl ==
    /\ \A i \in DOMAIN trace :
        (IsWait(trace[i]) /\ trace[i].page > 1) =>
            \E j \in 1..(i - 1) :
                /\ trace[j] = Event("next", trace[i].page, "ok", 0)
                /\ \E k \in 1..(j - 1) :
                    /\ OkWait(trace[k])
                    /\ trace[k].page = trace[i].page - 1
                    /\ trace[k].n >= 10
    /\ \A k \in DOMAIN trace :
        \/ OkWait(trace[k]) /\ trace[k].n < 10
        \/ trace[k].op = "next" /\ trace[k].res = "notfound"
        => \A i \in (k + 1)..Len(trace) : trace[i].op \notin {"wait", "next"}

C4_Witness ==
    /\ pc = "done"
    /\ max_pages = 3
    /\ \E i \in DOMAIN trace : trace[i] = Event("wait", 2, "ok", 9)

\* the records of the first m processed pages, in order
RECURSIVE RecordsOfPages(_, _)
RecordsOfPages(sn, m) ==
    IF m = 0 THEN <<>> ELSE RecordsOfPages(sn, m - 1) \o sn[m].recs

\* the wait for the blocks of page k timed out
WaitFailed(k) == \E i \in DOMAIN trace : trace[i] = Event("wait", k, "timeout", 0)

\* while page k was the current page, finding or clicking the control that
\* leads to page k+1 raised
NextControlFailed(k) ==
    \E i \in DOMAIN trace :
        trace[i].op = "next" /\ trace[i].page = k + 1 /\ trace[i].res # "ok"

NoWaitAfter(k) == \A i \in DOMAIN trace : IsWait(trace[i]) => trace[i].page <= k

\* C5 as claimed: when processing page k >= 2 fails, by a timeout of the wait
\* for its blocks or by an error finding or clicking its next-page control,
\* get_rent_data returns, without raising, exactly the records of pages
\* 1..k-1 in order and attempts no page after k.
C5_PageFailureReturnsEarlierPages ==
    pc = "done" =>
        \A k \in 2..max_pages :
            (WaitFailed(k) \/ NextControlFailed(k)) =>
                /\ outcome = "returned"
                /\ retval = RecordsOfPages(seen, k - 1)
                /\ NoWaitAfter(k)

\* C5 amended: when the wait for the blocks of page k >= 2 times out,
\* get_rent_data returns, without raising, exactly the records of pages
\* 1..k-1 in order; when finding or clicking the next-page control fails
\* while page k is the current page, it returns exactly the records of pages
\* 1..k in order, those of page k included; in both cases no page after k is
\* attempted.
C5_PageFailureKeepsCollectedPages ==
    pc = "done" =>
        \A k \in 2..max_pages :
            /\ WaitFailed(k) =>
                /\ outcome = "returned"
                /\ Len(seen) = k - 1
                /\ \A m \in 1..(k - 1) : seen[m].page = m
                /\ retval = RecordsOfPages(seen, k - 1)
                /\ NoWaitAfter(k)
            /\ NextControlFailed(k) =>
                /\ outcome = "returned"
                /\ Len(seen) = k
                /\ \A m \in 1..k : seen[m].page = m
                /\ retval = RecordsOfPages(seen, k)
                /\ NoWaitAfter(k)

C5_Witness ==
    /\ pc = "done"
    /\ NextControlFailed(2)
    /\ Len(seen) = 2
    /\ Len(retval) = 20

Unusable(b) == b.anchor # "href" \/ \A i \in DOMAIN b.url : b.url[i] = "/"

\* C6 as claimed: every record a strategy emits has a non-empty serial; a
\* block whose detail URL is absent, empty or made of slashes only yields no
\* record, in either strategy.
C6_NoRecordWithoutSerial ==
    xpc = "done" =>
        /\ \A i \in DOMAIN emitted : emitted[i].serial # <<>>
        /\ Unusable(item) => emitted = <<>>

NoSlash(s) == \A i \in DOMAIN s : s[i] # "/"

\* seg is the last '/'-separated segment of s
IsLastSegmentOf(seg, s) ==
    /\ NoSlash(seg)
    /\ Len(seg) <= Len(s)
    /\ SubSeq(s, Len(s) - Len(seg) + 1, Len(s)) = seg
    /\ Len(seg) < Len(s) => s[Len(s) - Len(seg)] = "/"

\* t is s without its trailing slashes
WithoutTrailingSlashes(t, s) ==
    /\ Len(t) <= Len(s)
    /\ SubSeq(s, 1, Len(t)) = t
    /\ \A i \in (Len(t) + 1)..Len(s) : s[i] = "/"
    /\ t # <<>> => t[Len(t)] # "/"

\* t is s without one trailing slash, if it has one
WithoutOneTrailingSlash(t, s) ==
    IF s # <<>> /\ s[Len(s)] = "/" THEN t = SubSeq(s, 1, Len(s) - 1) ELSE t = s

Prefixes(s) == {SubSeq(s, 1, n) : n \in 0..Len(s)}

\* C7 as claimed: for a non-empty detail URL the serial of the record is the
\* last segment of the URL after one trailing slash is removed, and the url
\* field is the URL.
C7_SerialAfterOneSlashRemoved ==
    (xpc = "done" /\ item.anchor = "href" /\ item.url # <<>>) =>
        \A i \in DOMAIN emitted :
            /\ emitted[i].url = item.url
            /\ \E t \in Prefixes(item.url) :
                /\ WithoutOneTrailingSlash(t, item.url)
                /\ IsLastSegmentOf(emitted[i].serial, t)

\* C7 amended: for a non-empty detail URL the serial of the record is the
\* last segment of the URL after all its trailing slashes are removed, and
\* the url field is the URL.
C7_SerialAfterAllSlashesRemoved ==
    (xpc = "done" /\ item.anchor = "href" /\ item.url # <<>>) =>
        \A i \in DOMAIN emitted :
            /\ emitted[i].url = item.url
            /\ \E t \in Prefixes(item.url) :
                /\ WithoutTrailingSlashes(t, item.url)
                /\ IsLastSegmentOf(emitted[i].serial, t)

C7_Witness ==
    /\ xpc = "done"
    /\ item.url = <<"1", "/", "2">> \o <<"/">> \/ item.url = <<"/", "2", "/">>
    /\ emitted # <<>>
    /\ emitted[1].serial = <<"2">>

\* C8 as claimed: in either strategy the info list decides the variable
\* fields of the record by its length: 4 gives rent, area, agent, update_time
\* and an empty parking; 5 gives rent, parking, area, agent, update_time; any
\* other length leaves the five fields empty.  agent is read as the upsert
\* reads it, item.get('agent', '').
C8_InfoFieldsByLength ==
    xpc = "done" =>
        \A i \in DOMAIN emitted :
            LET r == emitted[i]
                info == item.infos
                fields == <<r.rent, r.parking, r.area, GetOr(r, "agent", ""),
                            r.update_time>>
            IN  /\ Len(info) = 4 =>
                    fields = <<info[1], "", info[2], info[3], info[4]>>
                /\ Len(info) = 5 =>
                    fields = <<info[1], info[2], info[3], info[4], info[5]>>
                /\ Len(info) \notin {4, 5} => fields = <<"", "", "", "", "">>

TextOr(e) == IF e = <<>> THEN "" ELSE e[1]

\* C9 as claimed: in either strategy a block with a usable detail URL whose
\* title or address element is missing still yields one record, with the
\* missing field empty and the other one extracted.
C9_MissingTitleOrAddrKeepsRecord ==
    (/\ xpc = "done"
     /\ ~Unusable(item)
     /\ item.level # <<>> /\ item.pattern # <<>>
     /\ item.title = <<>> \/ item.addr = <<>>) =>
        /\ Len(emitted) = 1
        /\ emitted[1].title = TextOr(item.title)
        /\ emitted[1].addr = TextOr(item.addr)

Quits == {i \in DOMAIN trace : trace[i].op = "quit"}

Launched == \E i \in DOMAIN trace : trace[i] = Event("launch", 0, "ok", 0)

\* C10: once the browser has been launched, driver.quit() is called exactly
\* once before get_rent_data ends, on every exit path, it is never called
\* twice, and no browser call follows it.
C10_BrowserQuitExactlyOnce ==
    /\ Cardinality(Quits) <= 1
    /\ \A i \in Quits : i = Len(trace) /\ Launched
    /\ (pc = "done" /\ Launched) => (Cardinality(Quits) = 1 /\ driver = "quit")
    /\ driver = "quit" => pc = "done"

C10_Witness ==
    /\ pc = "done"
    /\ \E i \in DOMAIN trace : trace[i] = Event("get", 1, "error", 0)
    /\ Cardinality(Quits) = 1

WaitEvents == SelectSeq(trace, IsWait)

\* C12: the pages are waited for in the order 1, 2, 3, ..., none skipped and
\* none twice, at most max_pages of them, and none when max_pages <= 0, in
\* which case [] is returned; after a page N < max_pages with at least 10
\* blocks the control N+1 is tried, and once it has been clicked without error
\* page N+1 is the next page waited for.
C12_PagesInOrderUpToMaxPages ==
    /\ \A i \in DOMAIN WaitEvents : WaitEvents[i].page = i
    /\ Len(WaitEvents) <= (IF max_pages > 0 THEN max_pages ELSE 0)
    /\ (pc = "done" /\ outcome = "returned" /\ max_pages <= 0) => retval = <<>>
    /\ pc = "done" =>
        \A i \in DOMAIN trace :
            /\ (OkWait(trace[i]) /\ trace[i].n >= 10 /\ trace[i].page < max_pages) =>
                /\ i < Len(trace)
                /\ trace[i + 1].op = "next"
                /\ trace[i + 1].page = trace[i].page + 1
            /\ (trace[i].op = "next" /\ trace[i].res = "ok") =>
                /\ i < Len(trace)
                /\ IsWait(trace[i + 1])
                /\ trace[i + 1].page = trace[i].page

C12_Witness ==
    /\ pc = "done"
    /\ max_pages = 3
    /\ Len(WaitEvents) = 3
    /\ \A i \in 1..3 : OkWait(WaitEvents[i])

\* the block would be extracted by the browser strategy
Extractable(b) ==
    /\ b.anchor = "href"
    /\ b.title # <<>> /\ b.addr # <<>> /\ b.level # <<>> /\ b.pattern # <<>>

RECURSIVE UrlsOfBlocks(_)
UrlsOfBlocks(bs) ==
    IF bs = <<>> THEN <<>>
    ELSE (IF Extractable(Head(bs)) THEN <<Head(bs).url>> ELSE <<>>)
         \o UrlsOfBlocks(Tail(bs))

RECURSIVE UrlsOfPages(_, _)
UrlsOfPages(sn, m) ==
    IF m = 0 THEN <<>> ELSE UrlsOfPages(sn, m - 1) \o UrlsOfBlocks(sn[m].blocks)

UrlsOf(recs) == [i \in DOMAIN recs |-> recs[i].url]

\* C13: the list get_rent_data returns is, page after page in the order the
\* pages were processed, the records of the blocks of the page that were
\* extracted, in the order of the blocks on the page (the records are told
\* apart by their url, which no two blocks share).
C13_ResultsInPageAndBlockOrder ==
    /\ UrlsOf(results) = UrlsOfPages(seen, Len(seen))
    /\ \A i, j \in DOMAIN results : results[i].url = results[j].url => i = j
    /\ (pc = "done" /\ outcome = "returned" /\ seen # <<>>) => retval = results

C13_Witness ==
    /\ pc = "done"
    /\ Len(seen) = 2
    /\ Len(retval) = 19
    /\ seen[1].n = 10 /\ ~Extractable(seen[1].blocks[1])
    /\ retval[9].url = seen[1].blocks[10].url
    /\ retval[10].url = seen[2].blocks[1].url

\* the last call made to the site before the browser is shut down
LastSiteEvent ==
    LET es == SelectSeq(trace, LAMBDA e : e.op # "quit") IN es[Len(es)]

PageCapReached ==
    \/ max_pages <= 0 /\ LastSiteEvent.op = "get" /\ LastSiteEvent.res = "ok"
    \/ OkWait(LastSiteEvent) /\ LastSiteEvent.page = max_pages

ResultSetExhausted ==
    \/ OkWait(LastSiteEvent) /\ LastSiteEvent.n < 10
    \/ LastSiteEvent.op = "next" /\ LastSiteEvent.res = "notfound"

EndedByError == LastSiteEvent.res # "ok"

\* a step of the page loop leaves the loop, stays inside the iteration, or
\* starts the next iteration with current_page increased by one
LoopStep ==
    /\ pc \in {"loop", "wait", "paginate"} =>
        /\ pc' \in {"loop", "wait", "paginate", "return"}
        /\ current_page' \in {current_page, current_page + 1}
    /\ (pc = "paginate" /\ pc' # "return") =>
        pc' = "loop" /\ current_page' = current_page + 1
    /\ (pc = "wait" /\ pc' # "return") =>
        pc' = "paginate" /\ current_page' = current_page

\* C20: every call of get_rent_data ends; each iteration of the page loop
\* leaves the loop or increases current_page by one, the loop body runs at most
\* max_pages times, and the call ends with the page cap reached, the result
\* set exhausted (short page or no next control), or an error.
C20_CallTerminates ==
    /\ <>(pc = "done")
    /\ [][LoopStep]_vars
    /\ [](Len(WaitEvents) <= (IF max_pages > 0 THEN max_pages ELSE 0))
    /\ [](pc = "done" => (PageCapReached \/ ResultSetExhausted \/ EndedByError))

C20_Witness ==
    /\ pc = "done"
    /\ outcome = "returned"
    /\ max_pages = 2
    /\ PageCapReached /\ ~ResultSetExhausted /\ ~EndedByError
    /\ Len(retval) = 20

\* the characters of s at the positions of I, in order
RECURSIVE Pick(_, _, _)
Pick(s, I, i) ==
    IF i > Len(s) THEN <<>>
    ELSE (IF i \in I THEN <<s[i]>> ELSE <<>>) \o Pick(s, I, i + 1)

\* s without its empty segments: a "/" stays only between two segments
WithoutEmptySegments(s) ==
    Pick(s, {i \in DOMAIN s :
                \/ s[i] # "/"
                \/ /\ i > 1 /\ s[i - 1] # "/"
                   /\ \E j \in DOMAIN s : j > i /\ s[j] # "/"}, 1)

Given(v) == v # None /\ v # <<>>

QueryOf(ht, rr) ==
    IF Given(ht) /\ Given(rr)
    THEN <<"?", "purpid", "=">> \o ht \o <<"&", "rpid", "=">> \o rr
    ELSE IF Given(ht) THEN <<"?", "purpid", "=">> \o ht
    ELSE IF Given(rr) THEN <<"?", "rpid", "=">> \o rr
    ELSE <<>>

\* C18: with a county given, the URL is base + "region/" + county, then
\* "_" + district only if a district is given and is not the all-districts
\* value, then one "/", then, only if a filter is given, "?" and the filters
\* purpid=<house_type> and/or rpid=<rent_range> joined by "&", purpid first;
\* county and district are written without their empty segments.
C18_SearchUrlGrammar ==
    (bpc = "built" /\ Given(county)) =>
        url = <<"https:", "/", "/", "rent.housefun.com.tw", "/", "region", "/">>
              \o WithoutEmptySegments(county)
              \o (IF Given(district) /\ district # <<"quan", "qu">>
                  THEN <<"_">> \o WithoutEmptySegments(district) ELSE <<>>)
              \o <<"/">>
              \o QueryOf(house_type, rent_range)

C18_Witness ==
    /\ bpc = "built"
    /\ county = <<"/", "c", "/">>
    /\ district = <<"d", "/", "/">>
    /\ house_type = <<"1">>
    /\ rent_range = <<"RP7">>
    /\ url = <<"https:", "/", "/", "rent.housefun.com.tw", "/", "region", "/",
               "c", "_", "d", "/", "?", "purpid", "=", "1", "&", "rpid", "=",
               "RP7">>

\* the row holds the record's values in the ten fields the upsert writes
HoldsRecord(row, r) ==
    /\ row.title = r.title /\ row.addr = r.addr /\ row.level = r.level
    /\ row.pattern = r.pattern /\ row.rent = r.rent /\ row.parking = r.parking
    /\ row.area = r.area /\ row.agent = r.agent
    /\ row.update_time = r.update_time /\ row.url = r.url

\* the database time of the last upsert
OpTime == clock - 1

\* what the claim says of one upsert: an existing row is overwritten and its
\* updated_at refreshed, otherwise a row is inserted with both timestamps set
\* to the insertion time; created tells the two cases apart
UpsertTookEffect ==
    LET b == lastOp.before
        r == lastOp.rec
        found == {i \in DOMAIN b : b[i].serial = r.serial}
    IN  IF found # {}
        THEN /\ Len(store) = Len(b)
             /\ \A i \in found :
                    /\ store[i].serial = r.serial
                    /\ HoldsRecord(store[i], r)
                    /\ store[i].updated_at = OpTime
             /\ ~lastOp.created
        ELSE /\ Len(store) = Len(b) + 1
             /\ store[Len(store)].serial = r.serial
             /\ HoldsRecord(store[Len(store)], r)
             /\ store[Len(store)].created_at = OpTime
             /\ store[Len(store)].updated_at = OpTime
             /\ lastOp.created

\* the record's url is the url of a row with another serial
UrlTaken ==
    \E j \in DOMAIN lastOp.before :
        /\ lastOp.before[j].url = lastOp.rec.url
        /\ lastOp.before[j].serial # lastOp.rec.serial

\* C14 as stated: for each record, the row with its serial is overwritten with
\* the record's ten values and updated_at refreshed, or, if there is none, a
\* row is inserted with those values and created_at = updated_at = insertion
\* time; created is true exactly in the second case.
C14_EveryUpsertTakesEffect ==
    lastOp # NoOp => UpsertTookEffect

\* C14, amended: the above holds for a record whose url is not held by a row
\* with another serial; for a record whose url is, the upsert raises, yields no
\* created outcome and leaves the store as it was.
C14_UpsertTakesEffectUnlessUrlTaken ==
    lastOp # NoOp =>
        IF UrlTaken
        THEN ~lastOp.ok /\ ~lastOp.created /\ store = lastOp.before
        ELSE lastOp.ok /\ UpsertTookEffect

C14_Witness ==
    /\ lastOp # NoOp
    /\ lastOp.existed /\ lastOp.ok /\ ~lastOp.created
    /\ \E i \in DOMAIN store :
        /\ store[i].serial = lastOp.serial
        /\ store[i].url # lastOp.before[i].url
        /\ store[i].agent # lastOp.before[i].agent
        /\ store[i].created_at < store[i].updated_at

\* every row of the store is still there after the step, under its serial,
\* with the created_at it had and an updated_at not earlier than before
RowsKept ==
    \A i \in DOMAIN store :
        \E j \in DOMAIN store' :
            /\ store'[j].serial = store[i].serial
            /\ store'[j].created_at = store[i].created_at
            /\ store'[j].updated_at >= store[i].updated_at

\* C15: over any sequence of upsert runs no persisted row is deleted (the set
\* of persisted serials only grows), a row's created_at never changes after
\* its insertion, and updated_at never moves backwards and is never earlier
\* than created_at.
C15_RowsKeptAndTimestampsOrdered ==
    /\ [][RowsKept]_vars
    /\ [](\A i \in DOMAIN store : store[i].updated_at >= store[i].created_at)

C15_Witness ==
    /\ runNo = 2
    /\ upc = "done"
    /\ Len(store) = Len(snap)
    /\ Len(store) = 2
    /\ \A i \in DOMAIN store :
        /\ store[i].created_at = snap[i].created_at
        /\ store[i].updated_at > snap[i].updated_at
    /\ store[2].created_at > 0

\* the view told the user that the request failed
ReportsFailure ==
    \/ response.kind = "page" /\ response.error_message # ""
    \/ response.kind = "json" /\ response.status = "error"

\* C11: when the browser engine cannot start, no upsert is performed for the
\* run and the calling view, rent_list or get_all_rent_list, reports the run
\* to the user as a failure, not as a successful summary.
C11_EngineFailureReportedAsFailure ==
    (vpc = "responded" /\ engine_failures > 0) =>
        /\ ReportsFailure
        /\ view = "rent_list" => store = snap

OutcomeCount(kinds) == Cardinality({i \in DOMAIN outcomes : outcomes[i] \in kinds})

\* C16: rent_list reports as total_count the number of crawled records whose
\* upsert succeeded and as new_count the number of those that created a row,
\* so 0 <= new_count <= total_count <= number of crawled records;
\* get_all_rent_list reports as new_listings_count the number of upserts, over
\* all counties, that created a row.
C16_CountsMatchUpserts ==
    /\ (view = "rent_list" /\ vpc = "responded" /\ upc = "done") =>
        /\ response.total_count = OutcomeCount({"created", "updated"})
        /\ response.new_count = OutcomeCount({"created"})
        /\ response.new_count = Len(store) - Len(snap)
        /\ 0 <= response.new_count
        /\ response.new_count <= response.total_count
        /\ response.total_count <= Len(crawler_data)
    /\ (view = "get_all_rent_list" /\ vpc = "responded" /\ response.status = "success") =>
        response.new_listings_count = Len(store) - Len(snap)

C16_Witness ==
    /\ view = "rent_list"
    /\ vpc = "responded"
    /\ Len(crawler_data) = 2
    /\ response.total_count = 1
    /\ response.new_count = 0
    /\ outcomes = <<"failed", "updated">>

\* detail link, title, address, level, pattern and 4 or 5 infos all present
WellFormed(b) ==
    /\ b.anchor = "href"
    /\ b.title # <<>> /\ b.addr # <<>> /\ b.level # <<>> /\ b.pattern # <<>>
    /\ Len(b.infos) \in {4, 5}

\* the record with the values of level and pattern exchanged
LevelPatternExchanged(rec) ==
    [rec EXCEPT !.level = rec.pattern, !.pattern = rec.level]

\* C19: for the same well-formed block the browser strategy and the
\* lightweight strategy yield the same record, except that the values of
\* level and pattern are exchanged between them.
C19_StrategiesAgreeUpToLevelPattern ==
    (xpc = "done" /\ WellFormed(item)) =>
        LET other == IF strategy = "browser" THEN ExtractRequests(item)
                     ELSE ExtractBrowser(item)
        IN  /\ Len(emitted) = 1
            /\ Len(other) = 1
            /\ DOMAIN emitted[1] = DOMAIN other[1]
            /\ emitted[1] = LevelPatternExchanged(other[1])

SerialsIn(st) == {st[i].serial : i \in DOMAIN st}

\* C17: with the upserts of two requests interleaved, each atomic, serial and
\* url stay unique in every reachable state, no row is lost, each serial is
\* counted as newly created by at most one upsert over both requests, and the
\* sum of the requests' new counts is the number of rows added to the store.
C17_InterleavedUpsertsKeepStore ==
    /\ \A i, j \in DOMAIN store :
           (store[i].serial = store[j].serial \/ store[i].url = store[j].url) => i = j
    /\ SerialsIn(snap) \subseteq SerialsIn(store)
    /\ \A e \in created_log : e.serial \in SerialsIn(store) \ SerialsIn(snap)
    /\ \A e, f \in created_log : e.serial = f.serial => e = f
    /\ new_by[1] + new_by[2] = Len(store) - Len(snap)
    /\ \A p \in Requests :
           new_by[p] = Cardinality({e \in created_log : e.request = p})

C17_Witness ==
    /\ \A p \in Requests : crawled_by[p] = 2 /\ attempted[p] = 2 /\ new_by[p] = 1
    /\ \E e, f \in created_log :
        /\ e.request = 1 /\ e.at = 1
        /\ f.request = 2 /\ f.at = 2
    /\ clock = 5

\* C21: in get_all_rent_list a crawl that raises for a county adds one to the
\* error count and the remaining counties are still crawled, in list order;
\* the final error_count is the number of counties whose crawl raised plus the
\* number of record upserts that failed, and the view answers with JSON.
C21_CountyFailureCountedAndSkipped ==
    view = "get_all_rent_list" =>
        /\ visited = SubSeq(chinese_cities, 1, Len(visited))
        /\ total_errors = engine_failures + upsert_failures
        /\ (vpc = "responded" => response.kind = "json")
        /\ (vpc = "responded" /\ response.code # 403) =>
            /\ visited = chinese_cities
            /\ response.error_count = engine_failures + upsert_failures

C21_Witness ==
    /\ view = "get_all_rent_list"
    /\ vpc = "responded"
    /\ engine_failures = 1
    /\ upsert_failures = 0
    /\ response.error_count = 1
    /\ response.new_listings_count = 1
    /\ Len(store) = Len(snap) + 1

\* C23: with no other writer, the number of persisted rows after an upsert run
\* is the number before the run plus the run's new count, also when the batch
\* repeats a serial or holds records that fail; a record that updates a row
\* or fails does not change the number of rows.
C23_RowCountIsOldPlusNew ==
    /\ upc \in {"loop", "done"} => Len(store) = Len(snap) + new_listings_count
    /\ (lastOp # NoOp /\ ~(lastOp.ok /\ lastOp.created)) =>
            Len(store) = Len(lastOp.before)
    /\ (lastOp # NoOp /\ lastOp.ok /\ lastOp.created) =>
            Len(store) = Len(lastOp.before) + 1

C23_Witness ==
    /\ upc = "done"
    /\ Len(crawler_data) = 2
    /\ crawler_data[1].serial = crawler_data[2].serial
    /\ outcomes = <<"created", "updated">>
    /\ Len(snap) = 1
    /\ Len(store) = 2

\* C24: an upsert that fails for a record leaves the store exactly as it was
\* before the record was attempted: no row is inserted for its serial, and an
\* existing row with its serial keeps every field, url and updated_at included.
C24_FailedUpsertChangesNothing ==
    (lastOp # NoOp /\ ~lastOp.ok) =>
        /\ store = lastOp.before
        /\ Len(store) = Len(lastOp.before)
        /\ \A i \in DOMAIN store :
               store[i].serial = lastOp.serial => store[i] = lastOp.before[i]
        /\ ~lastOp.existed =>
               \A i \in DOMAIN store : store[i].serial # lastOp.serial

C24_Witness ==
    /\ lastOp # NoOp
    /\ ~lastOp.ok
    /\ lastOp.existed
    /\ Len(store) = 2
    /\ \E i \in DOMAIN store :
        /\ store[i].serial = lastOp.serial
        /\ store[i].url # lastOp.rec.url
        /\ store[i].title # lastOp.rec.title

\* the blocks of bs whose extraction does not fail
ExtractableIn(bs) == {i \in DOMAIN bs : Extractable(bs[i])}

\* the control to page p was looked for
NextTried(p) == \E i \in DOMAIN trace : trace[i].op = "next" /\ trace[i].page = p

\* C26: whether get_rent_data goes on to the next page depends on the number
\* of blocks found on the page, not on the number of records extracted: a
\* block whose extraction fails loses only its own record, the other blocks
\* of the page are extracted, and a page with at least 10 blocks advances even
\* if some or all of its blocks failed extraction.
C26_PagingCountsBlocksNotRecords ==
    \A k \in DOMAIN seen :
        /\ Len(seen[k].recs) = Cardinality(ExtractableIn(seen[k].blocks))
        /\ UrlsOf(seen[k].recs) = UrlsOfBlocks(seen[k].blocks)
        /\ (pc \in {"loop", "wait", "return", "finally_return", "done"}
            /\ seen[k].page < max_pages) =>
               (NextTried(seen[k].page + 1) <=> Len(seen[k].blocks) >= 10)

C26_Witness ==
    /\ pc = "done"
    /\ Len(seen) = 3
    /\ Len(seen[1].blocks) = 10 /\ seen[1].recs = <<>>
    /\ Len(seen[2].blocks) = 11 /\ Len(seen[2].recs) = 10
    /\ Len(retval) = 10 + Len(seen[3].recs)

\* C27: get_rent_data called without a county ignores district, house_type
\* and rent_range and fetches the bare base URL; rent_list, for a request
\* without a county, performs no crawl and writes nothing to the store.
C27_NoCountyNoSearch ==
    /\ (bpc = "built" /\ ~Given(county)) =>
            url = <<"https:", "/", "/", "rent.housefun.com.tw", "/">>
    /\ (view = "rent_list" /\ ~Given(county)) =>
            /\ engine_failures = 0 /\ runNo = 0
            /\ store = snap /\ clock = 1
            /\ vpc = "responded" => response.error_message = ""

C27_Witness ==
    /\ bpc = "built"
    /\ county = <<>>
    /\ district = <<"d">>
    /\ house_type = <<"1">>
    /\ rent_range = <<"RP7">>
    /\ url = <<"https:", "/", "/", "rent.housefun.com.tw", "/">>

\* C25: an upsert never changes a row's geocoded location or the set of users
\* who have favorited it, and changes no row other than the one with the
\* record's serial; a re-scrape that changes addr keeps the location.
C25_UpsertKeepsLocationAndFavorites ==
    lastOp # NoOp =>
        \A i \in DOMAIN lastOp.before :
            /\ store[i].serial = lastOp.before[i].serial
            /\ store[i].location = lastOp.before[i].location
            /\ store[i].favorited_by = lastOp.before[i].favorited_by
            /\ store[i].serial # lastOp.serial => store[i] = lastOp.before[i]

C25_Witness ==
    /\ lastOp # NoOp /\ lastOp.ok /\ lastOp.existed
    /\ Len(store) = 2
    /\ \E i \in DOMAIN store :
        /\ store[i].serial = lastOp.serial
        /\ store[i].addr # lastOp.before[i].addr
        /\ store[i].location = "point"
        /\ store[i].favorited_by = {"user"}

CityNames == {TAIWAN_CITIES[i] : i \in DOMAIN TAIWAN_CITIES}

IsPrefixOf(c, a) == Len(c) <= Len(a) /\ \A i \in DOMAIN c : a[i] = c[i]

OccursIn(c, a) ==
    \E k \in 0..(Len(a) - Len(c)) : \A i \in DOMAIN c : a[k + i] = c[i]

\* C22: a listing is labelled with the longest city name that is a prefix of
\* its address; if there is none, with the first city of the table that
\* occurs in the address; if there is none, with "other".  The label is never
\* a city that does not occur in the address, and an address that starts
\* with a city name is never labelled with another city.
C22_CityLabel ==
    ppc = "labelled" =>
        LET prefixes == {c \in CityNames : IsPrefixOf(c, listing_addr)}
            inside == {i \in DOMAIN TAIWAN_CITIES : OccursIn(TAIWAN_CITIES[i], listing_addr)}
        IN  /\ prefixes # {} =>
                /\ city_zh \in prefixes
                /\ \A c \in prefixes : Len(c) <= Len(city_zh)
            /\ (prefixes = {} /\ inside # {}) =>
                /\ city_zh \in CityNames
                /\ \E i \in inside :
                       city_zh = TAIWAN_CITIES[i] /\ \A j \in inside : i <= j
            /\ inside = {} => city_zh = <<"qi", "ta">>
            /\ city_zh # <<"qi", "ta">> => OccursIn(city_zh, listing_addr)
            /\ \A c \in prefixes : city_zh = c

C22_Witness ==
    /\ ppc = "labelled"
    /\ listing_addr = <<"xin", "zhu", "xian", "xin", "zhu", "shi">>
    /\ city_zh = <<"xin", "zhu", "xian">>

Lacking == {i \in DOMAIN geo_start : geo_start[i].location = "null"}

Handled(i) == {k \in DOMAIN geo_log : geo_log[k].row = i}

Verified(raw) == raw \in Passwords /\ raw = user_before.password

\* C29: after any request: is_active went from true to false only by a
\* deactivate_account whose password verified for a user that is neither
\* staff nor superuser; login_view logged nobody in whose is_active is
\* false; the stored password differs from the one before only after a
\* change_password whose old password verified, whose new password differs
\* from the old one and whose two new entries match.
C29_AccountRequests ==
    /\ (user_before.is_active /\ ~rent_user.is_active) =>
          /\ last_request.view = "deactivate_account"
          /\ Verified(last_request.f1)
          /\ ~user_before.is_staff
          /\ ~user_before.is_superuser
    /\ (last_request.view = "login_view" /\ ~user_before.is_active) =>
          /\ ~logged_in
          /\ last_request.result # "redirect"
    /\ (logged_in /\ ~logged_before) => rent_user.is_active
    /\ rent_user.password # user_before.password =>
          /\ last_request.view = "change_password"
          /\ Verified(last_request.f1)
          /\ last_request.f2 # last_request.f1
          /\ last_request.f2 = last_request.f3
    /\ last_request.view # "deactivate_account" => rent_user.is_active = user_before.is_active
    /\ rent_user.is_staff = user_before.is_staff
    /\ rent_user.is_superuser = user_before.is_superuser

C29_Witness ==
    /\ last_request.view = "deactivate_account"
    /\ last_request.result = "success"
    /\ user_before.is_active
    /\ ~rent_user.is_active
    /\ rent_user.password = "pw2"
====
